---- MODULE Spec2Model ----
(***************************************************************************)
(* File Vault: the browser HTTP client with token refresh on 401 and the   *)
(* request queue (services/api.js), and the server's file store (upload,   *)
(* soft delete, undelete, quota, orphan cleanup).                          *)
(***************************************************************************)
EXTENDS Integers, Sequences, FiniteSets, TLC

\* ------------------------------------------------------------------ bounds
NumReqs == 2        \* requests the client issues in one page session
MaxTok == 3         \* token pairs the server issues
MaxReplays == 2     \* replays of one request after which the server stops answering 401

NoTok == 0
ReqIds == 1..NumReqs
Toks == 0..MaxTok

VARIABLES
  localStorage,   \* access_token, refresh_token, user (browser storage)
  isRefreshing,   \* api.js: let isRefreshing
  failedQueue,    \* api.js: let failedQueue (requests whose promise is parked)
  defaultAuth,    \* api.defaults.headers.common['Authorization']
  pathname,       \* window.location.pathname
  reqs,           \* the requests sent through the api instance
  tokenSeq,       \* the last token pair the server issued
  user,           \* App.js: const [user, setUser] (the session user is set)
  isLoggingOut    \* Dashboard.js: const [isLoggingOut, setIsLoggingOut]

clientVars == <<localStorage, isRefreshing, failedQueue, defaultAuth, pathname, reqs, tokenSeq,
                user, isLoggingOut>>

VARIABLES
  storage_used,   \* core_user.storage_used per account
  storedFiles,    \* rows of files: id, hash, size
  blobs,          \* hashes whose blob is on disk under files/{hash[:2]}/{hash[2:4]}/{hash}
  assocs,         \* rows of user_files: id, account, file, filename, deleted
  nextId,         \* auto-increment ids of files and user_files
  ups,            \* upload requests and the step each has reached
  last,           \* the last upload response
  cleanup         \* the cleanup_files run

serverVars == <<storage_used, storedFiles, blobs, assocs, nextId, ups, last, cleanup>>

VARIABLES
  pairsIssued,    \* token pairs issued so far; pair k carries refresh token k
  blacklist,      \* the refresh-token blacklist table
  accepted,       \* per refresh token, how often the refresh endpoint accepted it
  loggedOut,      \* refresh tokens presented to a successful logout
  held,           \* the refresh token in the client's storage
  lastRefresh,    \* the last answer of POST /api/auth/token/refresh/
  lastLogout      \* the last answer of POST /api/auth/logout/

authVars == <<pairsIssued, blacklist, accepted, loggedOut, held, lastRefresh, lastLogout>>

VARIABLES
  accessItem,     \* the string stored under access_token, by its shape
  userItem,       \* the string stored under user, by its shape
  ticks,          \* check intervals elapsed on the wall clock
  authChecked,    \* App.js: authChecked (set together with loading = false)
  view,           \* the element the route table renders
  interval,       \* App.js: the setInterval of the token expiration effect
  logoutPending,  \* a dashboard logout whose call has not settled yet
  authResult      \* what isAuthenticated() returned to checkAuthStatus

appVars == <<accessItem, userItem, ticks, authChecked, view, interval, logoutPending, authResult>>

VARIABLES
  formData,       \* Login.js: const [formData, setFormData]
  errors,         \* Login.js: const [errors, setErrors]
  loading,        \* Login.js: const [loading, setLoading]
  pending,        \* Login.js: handleSubmit is awaiting authAPI.login
  caught          \* Login.js: the error the catch block of handleSubmit received

loginVars == <<formData, errors, loading, pending, caught>>

VARIABLES
  isOpen,         \* FileUploadModal: the isOpen prop (Dashboard: showUploadModal)
  selectedFile,   \* FileUploadModal: selectedFile, by its size in bytes
  tags,           \* FileUploadModal: tags
  isUploading,    \* FileUploadModal: isUploading
  uploadError,    \* FileUploadModal: uploadError, as the list of the parts joined
  dragActive,     \* FileUploadModal: dragActive
  uploadRequest,  \* the file of the fileAPI.uploadFile call the modal is awaiting
  uploadCalls,    \* the files fileAPI.uploadFile has been called with
  notifications   \* the records onUploadSuccess has been called with, in order

uploadVars == <<isOpen, selectedFile, tags, isUploading, uploadError, dragActive,
                uploadRequest, uploadCalls, notifications>>

VARIABLES
  bytes,          \* the argument of formatBytes: a size in bytes
  rendered        \* the text formatBytes returned for it

formatVars == <<bytes, rendered>>

VARIABLES
  detailsOpen,        \* FileDetailsModal: the isOpen prop
  fileId,             \* FileDetailsModal: the fileId prop
  fileDetails,        \* FileDetailsModal: fileDetails, by the id of the file loaded
  isLoading,          \* FileDetailsModal: isLoading
  detailsError,       \* FileDetailsModal: error
  isDeleting,         \* FileDetailsModal: isDeleting
  showDeleteConfirm,  \* FileDetailsModal: showDeleteConfirm
  fetches,            \* files whose fileAPI.getFileDetails call is in flight
  deleteRequest,      \* the file of the fileAPI.deleteFile call in flight
  confirms,           \* how often the user has asked to delete (confirmDelete)
  deletes             \* how often fileAPI.deleteFile has been called

detailsVars == <<detailsOpen, fileId, fileDetails, isLoading, detailsError, isDeleting,
                 showDeleteConfirm, fetches, deleteRequest, confirms, deletes>>

VARIABLES
  currentPage,        \* Dashboard: currentPage
  pageSize,           \* Dashboard: pageSize
  totalPages,         \* Dashboard: totalPages
  isLoadingFiles,     \* Dashboard: isLoadingFiles
  filesError,         \* Dashboard: filesError !== ''
  searchTerm,         \* Dashboard: searchTerm, as the sequence of its characters
  activeSearchTerm,   \* Dashboard: activeSearchTerm
  sizeMin,            \* Dashboard: sizeMin
  sizeMax,            \* Dashboard: sizeMax
  activeSizeMin,      \* Dashboard: activeSizeMin
  activeSizeMax,      \* Dashboard: activeSizeMax
  files,              \* Dashboard: files, totalFiles, hasNext, hasPrevious: the response shown
  listRequests,       \* the fileAPI.getFiles calls in flight, in the order they were made
  fetchCalls,         \* how often fileAPI.getFiles has been called
  userRequests,       \* the number of authAPI.getCurrentUser calls in flight
  uploadSettling,     \* handleUploadSuccess ran with no list call in flight, and no
                      \* handler has set the page or fetched the list since
  currentUser         \* Dashboard: currentUser, by storage_used and storage_quota

dashVars == <<currentPage, pageSize, totalPages, isLoadingFiles, filesError, searchTerm,
              activeSearchTerm, sizeMin, sizeMax, activeSizeMin, activeSizeMax, files,
              listRequests, fetchCalls, userRequests, uploadSettling, currentUser>>

\* component state of the views
viewVars == <<loginVars, uploadVars, formatVars, detailsVars, dashVars>>

\* the client state the App component does not own
apiVars == <<localStorage, isRefreshing, failedQueue, defaultAuth, reqs, tokenSeq, isLoggingOut>>

otherThanClient == <<serverVars, authVars, appVars, viewVars>>
otherThanServer == <<clientVars, authVars, appVars, viewVars>>
otherThanAuth == <<clientVars, serverVars, appVars, viewVars>>
otherThanApp == <<apiVars, serverVars, authVars, viewVars>>
\* what Login.js does not write; a successful login writes the session
otherThanLogin == <<isRefreshing, failedQueue, reqs, isLoggingOut, serverVars, authVars, appVars,
                    uploadVars, formatVars, detailsVars, dashVars>>
otherThanUpload == <<clientVars, serverVars, authVars, appVars, loginVars, formatVars,
                     detailsVars, dashVars>>
otherThanFormat == <<clientVars, serverVars, authVars, appVars, loginVars, uploadVars,
                     detailsVars, dashVars>>
otherThanDetails == <<clientVars, serverVars, authVars, appVars, loginVars, uploadVars,
                      formatVars, dashVars>>
otherThanDash == <<clientVars, serverVars, authVars, appVars, loginVars, uploadVars,
                   formatVars, detailsVars>>
sessionVars == <<localStorage, defaultAuth, pathname, tokenSeq, user>>
vars == <<clientVars, serverVars, authVars, appVars, viewVars>>

\* --------------------------------------------------------------- helpers
NewRequest ==
  [st |-> "unsent", kind |-> "plain", auth |-> NoTok, hdr |-> NoTok,
   retry |-> FALSE, err |-> "none", replays |-> 0, nq |-> 0]

SeqToSet(s) == {s[i] : i \in 1..Len(s)}

\* request ids are handed out in the order the requests are made
NextRequest(r) == reqs[r].st = "unsent" /\ \A q \in 1..(r - 1) : reqs[q].st # "unsent"

\* request interceptor; a header set on the config overrides the instance default
AttachAuth(store, hdr, dflt) ==
  IF store.access_token # NoTok THEN store.access_token
  ELSE IF hdr # NoTok THEN hdr ELSE dflt

\* return api(original)
Replay(rec, store, dflt) ==
  [rec EXCEPT !.st = "inflight", !.auth = AttachAuth(store, rec.hdr, dflt),
              !.replays = @ + 1]

\* a settled request: its promise is rejected or resolved and its config is dropped
Reject(rec, error) ==
  [rec EXCEPT !.st = "rejected", !.err = error, !.auth = NoTok, !.hdr = NoTok,
              !.retry = FALSE]

Resolve(rec) ==
  [rec EXCEPT !.st = "resolved", !.auth = NoTok, !.hdr = NoTok, !.retry = FALSE]

\* processQueue(error, token): the queued promises are settled, the queue emptied
processQueue(rs, queue, error, token, store, dflt) ==
  [reqs |-> [q \in ReqIds |->
               IF q \in SeqToSet(queue)
               THEN IF error # "none" THEN Reject(rs[q], error)
                    ELSE Replay([rs[q] EXCEPT !.hdr = token], store, dflt)
               ELSE rs[q]],
   queue |-> <<>>]

handleAuthFailure_keepsUser(store, path) ==
  [storage |-> [access_token |-> NoTok, refresh_token |-> NoTok, user |-> store.user],
   pathname |-> IF path # "/login" THEN "/login" ELSE path]

handleAuthFailure(store, path) ==
  [storage |-> [access_token |-> NoTok, refresh_token |-> NoTok, user |-> FALSE],
   pathname |-> IF path # "/login" THEN "/login" ELSE path]

removeAuthTokens_keepsRefresh(store) ==
  [access_token |-> NoTok, refresh_token |-> store.refresh_token, user |-> FALSE]

\* utils/auth.js removeAuthTokens (= clearAuthData) and the finally block of
\* authAPI.logout: the three keys are removed
removeAuthTokens(store) ==
  [access_token |-> NoTok, refresh_token |-> NoTok, user |-> FALSE]

StoreTokens_refreshOnly(store, access, refresh) ==
  [store EXCEPT !.refresh_token = refresh]

\* localStorage.setItem('access_token', access); setItem('refresh_token', refresh)
StoreTokens(store, access, refresh) ==
  [store EXCEPT !.access_token = access, !.refresh_token = refresh]

\* ------------------------------------------------------------------ init
\* browser storage survives a page load: the page starts logged out or with
\* the session of an earlier login
ClientInit ==
  /\ \E s \in BOOLEAN :
        /\ localStorage = IF s THEN [access_token |-> 1, refresh_token |-> 1, user |-> TRUE]
                          ELSE [access_token |-> NoTok, refresh_token |-> NoTok, user |-> FALSE]
        /\ tokenSeq = IF s THEN 1 ELSE 0
        /\ pathname = IF s THEN "/dashboard" ELSE "/login"
  /\ isRefreshing = FALSE
  /\ failedQueue = <<>>
  /\ defaultAuth = NoTok
  /\ reqs = [r \in ReqIds |-> NewRequest]
  /\ user = localStorage.user
  /\ isLoggingOut = FALSE

\* --------------------------------------------------------------- actions
\* a call through the api instance: fileAPI.*, authAPI.getCurrentUser
SendPlain(r) ==
  /\ NextRequest(r)
  /\ reqs' = [reqs EXCEPT ![r] = [@ EXCEPT !.st = "inflight", !.kind = "plain",
                                    !.auth = AttachAuth(localStorage, NoTok, defaultAuth)]]
  /\ UNCHANGED <<localStorage, isRefreshing, failedQueue, defaultAuth, pathname, tokenSeq>>
  /\ UNCHANGED <<user, isLoggingOut>>
  /\ UNCHANGED otherThanClient

\* Login.handleSubmit -> authAPI.login
SendLogin(r) ==
  /\ NextRequest(r)
  /\ pathname = "/login"
  /\ reqs' = [reqs EXCEPT ![r] = [@ EXCEPT !.st = "inflight", !.kind = "login",
                                    !.auth = AttachAuth(localStorage, NoTok, defaultAuth)]]
  /\ UNCHANGED <<localStorage, isRefreshing, failedQueue, defaultAuth, pathname, tokenSeq>>
  /\ UNCHANGED <<user, isLoggingOut>>
  /\ UNCHANGED otherThanClient

\* Dashboard.handleManualTokenRefresh -> authAPI.refreshToken(refreshToken)
handleManualTokenRefresh(r) ==
  /\ NextRequest(r)
  /\ localStorage.refresh_token # NoTok
  /\ reqs' = [reqs EXCEPT ![r] = [@ EXCEPT !.st = "inflight", !.kind = "manual",
                                    !.auth = AttachAuth(localStorage, NoTok, defaultAuth)]]
  /\ UNCHANGED <<localStorage, isRefreshing, failedQueue, defaultAuth, pathname, tokenSeq>>
  /\ UNCHANGED <<user, isLoggingOut>>
  /\ UNCHANGED otherThanClient

\* Dashboard.handleLogout with a refresh token in storage, up to
\* await authAPI.logout(refreshToken) -> api.post('/api/auth/logout/')
SendLogout(r) ==
  /\ NextRequest(r)
  /\ user
  /\ ~isLoggingOut
  /\ localStorage.refresh_token # NoTok
  /\ isLoggingOut' = TRUE
  /\ reqs' = [reqs EXCEPT ![r] = [@ EXCEPT !.st = "inflight", !.kind = "logout",
                                    !.auth = AttachAuth(localStorage, NoTok, defaultAuth)]]
  /\ UNCHANGED <<localStorage, isRefreshing, failedQueue, defaultAuth, pathname, tokenSeq>>
  /\ UNCHANGED user
  /\ UNCHANGED otherThanClient

\* Dashboard.handleLogout without a refresh token in storage: no call is made;
\* removeAuthTokens(), onLogout() -> App.handleLogout
LogoutLocal ==
  /\ user
  /\ ~isLoggingOut
  /\ localStorage.refresh_token = NoTok
  /\ localStorage' = removeAuthTokens(localStorage)
  /\ user' = FALSE
  /\ pathname' = "/login"
  /\ UNCHANGED <<isRefreshing, failedQueue, defaultAuth, reqs, tokenSeq, isLoggingOut>>
  /\ UNCHANGED otherThanClient

\* App.checkTokenExpiration finds the access token missing or expired:
\* handleLogout() -> setUser(null); clearAuthData(); the router then shows
\* /login without a page load, so the api module keeps its state
ExpiryLogout ==
  /\ user
  /\ localStorage' = removeAuthTokens(localStorage)
  /\ user' = FALSE
  /\ pathname' = "/login"
  /\ UNCHANGED <<isRefreshing, failedQueue, defaultAuth, reqs, tokenSeq, isLoggingOut>>
  /\ UNCHANGED otherThanClient

\* what the caller of a settled request does with the outcome
\*   authAPI.refreshToken: persists the rotated pair / handleAuthFailure
\*   authAPI.login + Login.handleSubmit: default header, setAuthTokens, setUser, onLogin
\*   authAPI.logout + Dashboard.handleLogout + App.handleLogout: the three keys and
\*     the default header are removed, setUser(null), setIsLoggingOut(false)
AfterSettle(rs, store, dflt, path, seq) ==
  LET doneLogout == \E q \in ReqIds : rs[q].kind = "logout"
                                        /\ rs[q].st \in {"resolved", "rejected"}
                                        /\ reqs[q].st \notin {"resolved", "rejected"}
      failedManual == \E q \in ReqIds : rs[q].kind = "manual" /\ rs[q].st = "rejected"
                                        /\ reqs[q].st # "rejected"
      okManual == \E q \in ReqIds : rs[q].kind = "manual" /\ rs[q].st = "resolved"
                                        /\ reqs[q].st # "resolved"
      okLogin == \E q \in ReqIds : rs[q].kind = "login" /\ rs[q].st = "resolved"
                                        /\ reqs[q].st # "resolved"
  IN  IF doneLogout
      THEN [storage |-> removeAuthTokens(store), dflt |-> NoTok,
            pathname |-> "/login", seq |-> seq, user |-> FALSE, isLoggingOut |-> FALSE]
      ELSE IF failedManual
      THEN [storage |-> handleAuthFailure(store, path).storage, dflt |-> dflt,
            pathname |-> handleAuthFailure(store, path).pathname, seq |-> seq,
            user |-> user, isLoggingOut |-> isLoggingOut]
      ELSE IF okManual
      THEN [storage |-> StoreTokens(store, seq + 1, seq + 1), dflt |-> seq + 1,
            pathname |-> path, seq |-> seq + 1,
            user |-> user, isLoggingOut |-> isLoggingOut]
      ELSE IF okLogin
      THEN [storage |-> [StoreTokens(store, seq + 1, seq + 1) EXCEPT !.user = TRUE],
            dflt |-> seq + 1, pathname |-> "/dashboard", seq |-> seq + 1,
            user |-> TRUE, isLoggingOut |-> isLoggingOut]
      ELSE [storage |-> store, dflt |-> dflt, pathname |-> path, seq |-> seq,
            user |-> user, isLoggingOut |-> isLoggingOut]

Settle(rs, store, dflt, path) ==
  LET a == AfterSettle(rs, store, dflt, path, tokenSeq)
  IN  /\ reqs' = rs
      /\ localStorage' = a.storage
      /\ defaultAuth' = a.dflt
      /\ pathname' = a.pathname
      /\ tokenSeq' = a.seq
      /\ user' = a.user
      /\ isLoggingOut' = a.isLoggingOut

\* response interceptor, success side: (response) => response
RespondOk(r) ==
  /\ reqs[r].st = "inflight"
  /\ reqs[r].kind \in {"login", "manual"} => tokenSeq < MaxTok
  /\ Settle([reqs EXCEPT ![r] = Resolve(@)], localStorage, defaultAuth, pathname)
  /\ UNCHANGED <<isRefreshing, failedQueue>>
  /\ UNCHANGED otherThanClient

\* response interceptor, error side, !error.response: the caller is handed
\* {message, type: 'network_error'}
RespondNone(r) ==
  /\ reqs[r].st = "inflight"
  /\ Settle([reqs EXCEPT ![r] = Reject(@, "network_error")], localStorage, defaultAuth, pathname)
  /\ UNCHANGED <<isRefreshing, failedQueue>>
  /\ UNCHANGED otherThanClient

\* response interceptor, error side, a status other than 401 (or 401 with _retry)
RespondError(r) ==
  /\ reqs[r].st = "inflight"
  /\ \E e \in {"http500"} \cup (IF reqs[r].retry /\ reqs[r].replays < MaxReplays
                                THEN {"http401"} ELSE {}) :
       Settle([reqs EXCEPT ![r] = Reject(@, e)], localStorage, defaultAuth, pathname)
  /\ UNCHANGED <<isRefreshing, failedQueue>>
  /\ UNCHANGED otherThanClient

\* response interceptor, 401 && !original._retry, isRefreshing: the request is queued
Respond401Queued(r) ==
  /\ reqs[r].st = "inflight"
  /\ reqs[r].replays < MaxReplays
  /\ ~reqs[r].retry
  /\ isRefreshing
  /\ failedQueue' = Append(failedQueue, r)
  /\ reqs' = [reqs EXCEPT ![r] = [@ EXCEPT !.st = "queued", !.nq = 1]]
  /\ UNCHANGED <<localStorage, isRefreshing, defaultAuth, pathname, tokenSeq>>
  /\ UNCHANGED <<user, isLoggingOut>>
  /\ UNCHANGED otherThanClient

\* response interceptor, 401 && !original._retry, not refreshing: this request refreshes
Respond401Refresh(r) ==
  /\ reqs[r].st = "inflight"
  /\ reqs[r].replays < MaxReplays
  /\ ~reqs[r].retry
  /\ ~isRefreshing
  /\ isRefreshing' = TRUE
  /\ IF localStorage.refresh_token = NoTok
     THEN LET h == handleAuthFailure(localStorage, pathname)
          IN  Settle([reqs EXCEPT ![r] = Reject(@, "http401")],
                     h.storage, defaultAuth, h.pathname)
     ELSE /\ reqs' = [reqs EXCEPT ![r] = [@ EXCEPT !.st = "refreshing", !.retry = TRUE,
                                             !.auth = NoTok]]
          /\ UNCHANGED <<localStorage, defaultAuth, pathname, tokenSeq, user, isLoggingOut>>
  /\ UNCHANGED failedQueue
  /\ UNCHANGED otherThanClient

\* the handler's axios.post(.../token/refresh/) resolved
RefreshOk(r) ==
  /\ reqs[r].st = "refreshing"
  /\ tokenSeq < MaxTok
  /\ LET access == tokenSeq + 1
         store == StoreTokens(localStorage, access, access)
         pq == processQueue([reqs EXCEPT ![r].hdr = access], failedQueue, "none",
                            access, store, access)
     IN  /\ localStorage' = store
         /\ defaultAuth' = access
         /\ tokenSeq' = access
         /\ failedQueue' = pq.queue
         /\ reqs' = [pq.reqs EXCEPT ![r] = Replay(@, store, access)]
  /\ isRefreshing' = FALSE
  /\ UNCHANGED <<pathname, user, isLoggingOut>>
  /\ UNCHANGED otherThanClient

\* the handler's axios.post(.../token/refresh/) rejected; the call is made with
\* axios itself, not the api instance, so refreshError is the raw axios error:
\* "refresh_http" of an error status, "refresh_network" of no response at all
RefreshFail(r) ==
  /\ reqs[r].st = "refreshing"
  /\ \E e \in {"refresh_http", "refresh_network"} :
       LET pq == processQueue(reqs, failedQueue, e, NoTok, localStorage, defaultAuth)
           h == handleAuthFailure(localStorage, pathname)
       IN  /\ failedQueue' = pq.queue
           /\ Settle([pq.reqs EXCEPT ![r] = Reject(@, e)], h.storage, defaultAuth, h.pathname)
  /\ isRefreshing' = FALSE
  /\ UNCHANGED otherThanClient

Next ==
  \/ \E r \in ReqIds : SendPlain(r)
  \/ \E r \in ReqIds : SendLogin(r)
  \/ \E r \in ReqIds : handleManualTokenRefresh(r)
  \/ \E r \in ReqIds : SendLogout(r)
  \/ LogoutLocal
  \/ ExpiryLogout
  \/ \E r \in ReqIds : RespondOk(r)
  \/ \E r \in ReqIds : RespondNone(r)
  \/ \E r \in ReqIds : RespondError(r)
  \/ \E r \in ReqIds : Respond401Queued(r)
  \/ \E r \in ReqIds : Respond401Refresh(r)
  \/ \E r \in ReqIds : RefreshOk(r)
  \/ \E r \in ReqIds : RefreshFail(r)


\* ================================================================ server
\* file store: accounts, StoredFile rows (files), FileAssociation rows
\* (user_files), blobs on disk, upload requests in progress, the cleanup job
NumAccounts == 2    \* accounts
NumContents == 1    \* distinct byte contents (content hashes)
NumNames == 2       \* filenames
NumUploads == 3     \* upload requests
MaxInFlight == 2    \* upload requests in progress at the same time
Quota == 3          \* storage_quota of every account, in size units

Accounts == 1..NumAccounts
Contents == 1..NumContents
Names == 1..NumNames
UploadIds == 1..NumUploads
NoFile == 0
\* auto-increment ids: each upload inserts at most one row per table
RowIds == 1..NumUploads

\* size in bytes of the content with hash h
SizeOf(h) == h + 1

NewUpload ==
  [pc |-> "idle", account |-> 1, content |-> 1, filename |-> 1, file |-> NoFile,
   lostRace |-> FALSE]

ServerInit ==
  /\ storage_used = [a \in Accounts |-> 0]
  /\ storedFiles = {}
  /\ blobs = {}
  /\ assocs = {}
  /\ nextId = [file |-> 1, assoc |-> 1]
  /\ ups = [u \in UploadIds |-> NewUpload]
  /\ last = [result |-> "none", file |-> NoFile, lostRace |-> FALSE, inRun |-> FALSE]
  /\ cleanup = [pc |-> "idle", dry |-> FALSE, todo |-> {}]

RowsByHash(h) == {x \in storedFiles : x.hash = h}
RowsById(i) == {x \in storedFiles : x.id = i}
AssocsOf(i) == {x \in assocs : x.file = i}
ActiveOf(a) == {x \in assocs : x.account = a /\ ~x.deleted}

RECURSIVE SumSizes(_)
SumSizes(S) ==
  IF S = {} THEN 0
  ELSE LET x == CHOOSE y \in S : TRUE
       IN  (LET rows == RowsById(x.file)
            IN  IF rows = {} THEN 0 ELSE (CHOOSE y \in rows : TRUE).size)
           + SumSizes(S \ {x})

\* GET /api/files/: the requesting account's non-deleted associations
List(a) == {x.id : x \in ActiveOf(a)}

Orphaned_anyDeleted(i) == AssocsOf(i) = {} \/ \E x \in AssocsOf(i) : x.deleted

\* the cleanup job's test: every association of the StoredFile is soft-deleted
\* (or it has none)
Orphaned(i) == \A x \in AssocsOf(i) : x.deleted

HashTaken_never(h) == FALSE

\* unique constraint on files.hash
HashTaken(h) == RowsByHash(h) # {}

FindAssoc_anyName(a, i, f) == {x \in assocs : x.account = a /\ x.file = i}

\* the association of (account, content, filename), unique by unique_user_file_name
FindAssoc(a, i, f) == {x \in assocs : x.account = a /\ x.file = i /\ x.filename = f}

OverQuota_never(a, size) == FALSE

\* quota check: storage_used + content.size > storage_quota
OverQuota(a, size) == storage_used[a] + size > Quota

TxnSame(result) ==
  [assocs |-> assocs, used |-> storage_used, next |-> nextId.assoc, result |-> result]

\* first upload of the triple: create the association, add the size
TxnCreate(a, i, f, size) ==
  [assocs |-> assocs \cup {[id |-> nextId.assoc, account |-> a, file |-> i,
                            filename |-> f, deleted |-> FALSE]},
   used |-> [storage_used EXCEPT ![a] = @ + size],
   next |-> nextId.assoc + 1, result |-> "created"]

\* re-upload of a soft-deleted triple: undelete in place, re-add the size
TxnUndelete(x, size) ==
  [assocs |-> (assocs \ {x}) \cup {[x EXCEPT !.deleted = FALSE]},
   used |-> [storage_used EXCEPT ![x.account] = @ + size],
   next |-> nextId.assoc, result |-> "undeleted"]

TxnReupload_recount(x, size) ==
  [assocs |-> assocs, used |-> [storage_used EXCEPT ![x.account] = @ + size],
   next |-> nextId.assoc, result |-> "existing"]

\* re-upload of an active triple: no new row, no usage change
TxnReupload(x, size) == TxnSame("existing")

\* step 2 of upload, one transaction: association lookup by (account, content,
\* filename), quota check, create / undelete / no-op, usage increment
AssocTxn(a, i, f) ==
  LET size == (CHOOSE y \in RowsById(i) : TRUE).size
      existing == FindAssoc(a, i, f)
  IN  IF existing = {}
      THEN IF OverQuota(a, size) THEN TxnSame("quota")
           ELSE TxnCreate(a, i, f, size)
      ELSE LET x == CHOOSE y \in existing : TRUE
           IN  IF x.deleted
               THEN IF OverQuota(a, size) THEN TxnSame("quota")
                    ELSE TxnUndelete(x, size)
               ELSE TxnReupload(x, size)

DeleteTxn_keepsUsage(x) ==
  [assocs |-> (assocs \ {x}) \cup {[x EXCEPT !.deleted = TRUE]},
   used |-> storage_used]

\* DELETE /api/files/{id}/delete/, one transaction
DeleteTxn(x) ==
  [assocs |-> (assocs \ {x}) \cup {[x EXCEPT !.deleted = TRUE]},
   used |-> [storage_used EXCEPT ![x.account] =
               @ - (CHOOSE y \in RowsById(x.file) : TRUE).size]]

\* POST /api/files/upload/ received: the bytes are hashed
UploadStart(u, a, c, f) ==
  /\ ups[u].pc = "idle"
  /\ \A v \in 1..(u - 1) : ups[v].pc # "idle"
  /\ Cardinality({v \in UploadIds : ups[v].pc \notin {"idle", "done"}}) < MaxInFlight
  /\ ups' = [ups EXCEPT ![u] = [@ EXCEPT !.pc = "lookup", !.account = a,
                                          !.content = c, !.filename = f]]
  /\ UNCHANGED <<storage_used, storedFiles, blobs, assocs, nextId, cleanup, last>>
  /\ UNCHANGED otherThanServer

\* storage engine: look the StoredFile up by hash
UploadLookup(u) ==
  /\ ups[u].pc = "lookup"
  /\ LET rows == RowsByHash(ups[u].content)
     IN  ups' = [ups EXCEPT ![u] =
                   IF rows = {} THEN [@ EXCEPT !.pc = "insert"]
                   ELSE [@ EXCEPT !.pc = "assoc", !.file = (CHOOSE y \in rows : TRUE).id]]
  /\ UNCHANGED <<storage_used, storedFiles, blobs, assocs, nextId, cleanup, last>>
  /\ UNCHANGED otherThanServer

\* storage engine: write the blob and insert the row; the loser of an insert
\* race hits the unique constraint and retries its lookup
UploadInsert(u) ==
  /\ ups[u].pc = "insert"
  /\ IF HashTaken(ups[u].content)
     THEN /\ ups' = [ups EXCEPT ![u] = [@ EXCEPT !.pc = "lookup", !.lostRace = TRUE]]
          /\ UNCHANGED <<storedFiles, blobs, nextId>>
     ELSE /\ storedFiles' = storedFiles \cup {[id |-> nextId.file, hash |-> ups[u].content,
                                               size |-> SizeOf(ups[u].content)]}
          /\ blobs' = blobs \cup {ups[u].content}
          /\ nextId' = [nextId EXCEPT !.file = @ + 1]
          /\ ups' = [ups EXCEPT ![u] = [@ EXCEPT !.pc = "assoc", !.file = nextId.file]]
  /\ UNCHANGED <<storage_used, assocs, cleanup, last>>
  /\ UNCHANGED otherThanServer

\* file API: the association transaction and the response; an association
\* cannot reference a StoredFile row that is gone (foreign key file_id): the
\* request fails and changes nothing
UploadAssoc(u) ==
  /\ ups[u].pc = "assoc"
  /\ LET t == IF RowsById(ups[u].file) = {} THEN TxnSame("failed")
              ELSE AssocTxn(ups[u].account, ups[u].file, ups[u].filename)
     IN  /\ assocs' = t.assocs
         /\ storage_used' = t.used
         /\ nextId' = [nextId EXCEPT !.assoc = t.next]
         /\ ups' = [ups EXCEPT ![u] = [NewUpload EXCEPT !.pc = "done"]]
         /\ last' = [result |-> t.result, file |-> ups[u].file,
                     lostRace |-> ups[u].lostRace,
                     inRun |-> (cleanup.pc = "running" /\ ups[u].file \in cleanup.todo)]
  /\ UNCHANGED <<storedFiles, blobs, cleanup>>
  /\ UNCHANGED otherThanServer

\* DELETE /api/files/{id}/delete/ by the owner of a non-deleted association
DeleteFile(a, i) ==
  /\ \E x \in assocs :
       /\ x.id = i /\ x.account = a /\ ~x.deleted
       /\ LET t == DeleteTxn(x)
          IN  assocs' = t.assocs /\ storage_used' = t.used
  /\ UNCHANGED <<storedFiles, blobs, nextId, ups, cleanup, last>>
  /\ UNCHANGED otherThanServer

\* python manage.py cleanup_files [--dry-run]
CleanupStart(dry) ==
  /\ cleanup.pc = "idle"
  /\ cleanup' = [pc |-> "running", dry |-> dry, todo |-> {x.id : x \in storedFiles}]
  /\ UNCHANGED <<storage_used, storedFiles, blobs, assocs, nextId, ups, last>>
  /\ UNCHANGED otherThanServer

\* the job examines one StoredFile: check and removal are one transaction
CleanupVisit(i) ==
  /\ cleanup.pc = "running"
  /\ i \in cleanup.todo
  /\ IF RowsById(i) # {} /\ Orphaned(i) /\ ~cleanup.dry
     THEN /\ storedFiles' = storedFiles \ RowsById(i)
          /\ blobs' = blobs \ {x.hash : x \in RowsById(i)}
          /\ assocs' = assocs \ AssocsOf(i)
     ELSE UNCHANGED <<storedFiles, blobs, assocs>>
  /\ cleanup' = [cleanup EXCEPT !.todo = @ \ {i}]
  /\ UNCHANGED <<storage_used, nextId, ups, last>>
  /\ UNCHANGED otherThanServer

CleanupFinish ==
  /\ cleanup.pc = "running"
  /\ cleanup.todo = {}
  /\ cleanup' = [cleanup EXCEPT !.pc = "idle", !.dry = FALSE]
  /\ UNCHANGED <<storage_used, storedFiles, blobs, assocs, nextId, ups, last>>
  /\ UNCHANGED otherThanServer

ServerNext ==
  \/ \E u \in UploadIds, a \in Accounts, c \in Contents, f \in Names : UploadStart(u, a, c, f)
  \/ \E u \in UploadIds : UploadLookup(u)
  \/ \E u \in UploadIds : UploadInsert(u)
  \/ \E u \in UploadIds : UploadAssoc(u)
  \/ \E a \in Accounts, i \in RowIds : DeleteFile(a, i)
  \/ \E dry \in BOOLEAN : CleanupStart(dry)
  \/ \E i \in RowIds : CleanupVisit(i)
  \/ CleanupFinish

\* ========================================================== auth service
\* registration/login, token refresh with rotation, logout with blacklisting
MaxPairs == 3       \* token pairs the auth service issues

RefreshTokens == 1..MaxPairs

AuthInit ==
  /\ pairsIssued = 0
  /\ blacklist = {}
  /\ accepted = [t \in RefreshTokens |-> 0]
  /\ loggedOut = {}
  /\ held = NoTok
  /\ lastRefresh = [token |-> NoTok, result |-> "none"]
  /\ lastLogout = [token |-> NoTok, result |-> "none"]

\* the tokens that exist: anyone who once saw one may present it again
Issued == 1..pairsIssued

Blacklist_forgets(bl, t) == bl

\* the presented refresh token is entered into the blacklist table
Blacklist(bl, t) == bl \cup {t}

\* a refresh token is refused when it is blacklisted (malformed and expired
\* tokens are refused as well; they are never accepted, so they are left out)
Refused(t) == t \in blacklist

\* Register / Login: a fresh token pair, which the client stores
IssuePair ==
  /\ pairsIssued < MaxPairs
  /\ pairsIssued' = pairsIssued + 1
  /\ held' = pairsIssued + 1
  /\ UNCHANGED <<blacklist, accepted, loggedOut, lastRefresh, lastLogout>>
  /\ UNCHANGED otherThanAuth

\* Token refresh, success: rotation blacklists the presented token and issues a
\* new pair; the client stores it when it was the client that asked
RefreshAccept(t, byClient) ==
  /\ t \in Issued
  /\ byClient => held = t
  /\ ~Refused(t)
  /\ pairsIssued < MaxPairs
  /\ blacklist' = Blacklist(blacklist, t)
  /\ pairsIssued' = pairsIssued + 1
  /\ accepted' = [accepted EXCEPT ![t] = @ + 1]
  /\ held' = IF byClient THEN pairsIssued + 1 ELSE held
  /\ lastRefresh' = [token |-> t, result |-> "ok"]
  /\ UNCHANGED <<loggedOut, lastLogout>>
  /\ UNCHANGED otherThanAuth

\* Token refresh, failure: Authentication error; a client that asked ends its
\* session (handleAuthFailure)
RefreshReject(t, byClient) ==
  /\ t \in Issued
  /\ byClient => held = t
  /\ Refused(t)
  /\ held' = IF byClient THEN NoTok ELSE held
  /\ lastRefresh' = [token |-> t, result |-> "authentication_error"]
  /\ UNCHANGED <<pairsIssued, blacklist, accepted, loggedOut, lastLogout>>
  /\ UNCHANGED otherThanAuth

\* Logout, success (205): the presented refresh token is blacklisted; the client
\* clears its storage
LogoutAccept(t) ==
  /\ t \in Issued
  /\ held = t
  /\ ~Refused(t)
  /\ blacklist' = Blacklist(blacklist, t)
  /\ loggedOut' = loggedOut \cup {t}
  /\ held' = NoTok
  /\ lastLogout' = [token |-> t, result |-> "ok"]
  /\ UNCHANGED <<pairsIssued, accepted, lastRefresh>>
  /\ UNCHANGED otherThanAuth

\* Logout, failure: no valid access token (401), or the refresh token is
\* already invalid (Validation error); the client clears its storage all the same
LogoutReject(t, e) ==
  /\ t \in Issued
  /\ held = t
  /\ e = "validation_error" => Refused(t)
  /\ held' = NoTok
  /\ lastLogout' = [token |-> t, result |-> e]
  /\ UNCHANGED <<pairsIssued, blacklist, accepted, loggedOut, lastRefresh>>
  /\ UNCHANGED otherThanAuth

\* the client clears its storage without telling the server
ClientClear ==
  /\ held # NoTok
  /\ held' = NoTok
  /\ UNCHANGED <<pairsIssued, blacklist, accepted, loggedOut, lastRefresh, lastLogout>>
  /\ UNCHANGED otherThanAuth

AuthNext ==
  \/ IssuePair
  \/ \E t \in RefreshTokens, byClient \in BOOLEAN : RefreshAccept(t, byClient)
  \/ \E t \in RefreshTokens, byClient \in BOOLEAN : RefreshReject(t, byClient)
  \/ \E t \in RefreshTokens : LogoutAccept(t)
  \/ \E t \in RefreshTokens, e \in {"authentication_error", "validation_error"} :
       LogoutReject(t, e)
  \/ ClientClear

\* ====================================================== session and router
\* App.js (session check, expiration timer, route table) over utils/auth.js
MaxTicks == 2       \* check intervals the clock runs for
MaxLifetime == 2    \* longest access-token lifetime, in check intervals

CheckIntervalMs == 60000

NoExp == -1
IntervalS == CheckIntervalMs \div 1000

\* Date.now(): the page is opened one interval after the epoch of the model
NowMs == (ticks + 1) * CheckIntervalMs
\* Math.floor(Date.now() / 1000)
CurrentTime == NowMs \div 1000

\* exp of a payload: absent, or the time in seconds at which the token expires
ExpValues == {NoExp} \cup {k * IntervalS : k \in 1..(MaxTicks + 1 + MaxLifetime)}

\* a stored access_token: absent, the empty string, or a string with so many
\* dot-separated parts whose middle part is not base64, is base64 of
\* something that is not JSON, of the JSON null, or of a JSON object with or
\* without exp
NoItem == [kind |-> "absent", parts |-> 0, middle |-> "none", exp |-> NoExp]
EmptyItem == [kind |-> "empty", parts |-> 1, middle |-> "none", exp |-> NoExp]
Jwt(e) == [kind |-> "string", parts |-> 3, middle |-> "object", exp |-> e]
AccessItems ==
  {NoItem, EmptyItem}
  \cup {[kind |-> "string", parts |-> n, middle |-> "none", exp |-> NoExp] : n \in {2, 4}}
  \cup {[kind |-> "string", parts |-> 3, middle |-> m, exp |-> NoExp] :
          m \in {"badbase64", "badjson", "null"}}
  \cup {Jwt(e) : e \in ExpValues}

\* a stored user: absent, not JSON, JSON that parses to a falsy value, an object
UserItems == {"absent", "corrupt", "null", "object"}

Paths == {"/login", "/register", "/dashboard", "/", "/other"}

\* getAccessToken() used as a condition: null and '' are falsy
getAccessToken(a) == a.kind = "string"

\* getUser(): the parsed user is truthy; corrupted data is purged
getUser(u) == u = "object"
getUserPurges(u) == IF u = "corrupt" THEN "absent" ELSE u

\* JSON.parse(atob(parts[1])) followed by payload.exp: throws unless the part
\* is base64 of JSON other than null
PayloadThrows(a) == a.middle # "object"

\* payload.exp used as a condition: undefined and 0 are falsy
ExpTruthy(a) == a.exp # NoExp /\ a.exp # 0

isAuthenticated(a, u, now) ==
  IF ~getAccessToken(a) \/ ~getUser(u) THEN FALSE
  ELSE IF a.parts # 3 THEN FALSE
  ELSE IF PayloadThrows(a) THEN FALSE
  ELSE IF ExpTruthy(a) /\ a.exp < now THEN FALSE
  ELSE TRUE

isTokenExpired(a, now) ==
  IF ~getAccessToken(a) THEN TRUE
  ELSE IF a.parts # 3 THEN TRUE
  ELSE IF PayloadThrows(a) THEN TRUE
  ELSE IF ExpTruthy(a) THEN a.exp < now ELSE FALSE

RouteElement_dashboardOpen(path, u, checked) ==
  IF ~checked THEN "Spinner"
  ELSE IF path = "/login" THEN (IF ~u THEN "Login" ELSE "Navigate:/dashboard")
  ELSE IF path = "/register" THEN (IF ~u THEN "Register" ELSE "Navigate:/dashboard")
  ELSE IF path = "/dashboard" THEN "Dashboard"
  ELSE (IF u THEN "Navigate:/dashboard" ELSE "Navigate:/login")

\* what App renders: the spinner until the session check is done, then the
\* element of the matching route
RouteElement(path, u, checked) ==
  IF ~checked THEN "Spinner"
  ELSE IF path = "/login" THEN (IF ~u THEN "Login" ELSE "Navigate:/dashboard")
  ELSE IF path = "/register" THEN (IF ~u THEN "Register" ELSE "Navigate:/dashboard")
  ELSE IF path = "/dashboard" THEN (IF u THEN "Dashboard" ELSE "Navigate:/login")
  ELSE (IF u THEN "Navigate:/dashboard" ELSE "Navigate:/login")

NavigateTo(v) == IF v = "Navigate:/dashboard" THEN "/dashboard" ELSE "/login"

IntervalOff == [on |-> FALSE, due |-> 0]

TokenEffect_keepsInterval(u2) ==
  IF u2 = user /\ interval.on THEN interval
  ELSE IF u2 \/ interval.on THEN [on |-> TRUE, due |-> NowMs + CheckIntervalMs]
  ELSE IntervalOff

\* useEffect(..., [user]): when user changes the old interval is cleared, and
\* a new one is set if a user is now set
TokenEffect(u2) ==
  IF u2 = user THEN interval
  ELSE IF u2 THEN [on |-> TRUE, due |-> NowMs + CheckIntervalMs]
  ELSE IntervalOff

\* state updates of App are committed: the route table is rendered again and
\* the effect that depends on user runs
Commit(u2, path2, checked2) ==
  /\ user' = u2
  /\ pathname' = path2
  /\ authChecked' = checked2
  /\ view' = RouteElement(path2, u2, checked2)
  /\ interval' = TokenEffect(u2)

\* a document load at path p: the App mounts afresh, pending work is gone
PageLoad(p) ==
  /\ user' = FALSE
  /\ pathname' = p
  /\ authChecked' = FALSE
  /\ view' = RouteElement(p, FALSE, FALSE)
  /\ interval' = IntervalOff
  /\ logoutPending' = FALSE
  /\ authResult' = "none"

\* the browser is opened at some path with whatever storage holds
AppInit ==
  /\ accessItem \in AccessItems
  /\ userItem \in UserItems
  /\ ticks = 0
  /\ user = FALSE
  /\ authChecked = FALSE
  /\ pathname \in Paths
  /\ view = "Spinner"
  /\ interval = IntervalOff
  /\ logoutPending = FALSE
  /\ authResult = "none"

AppIdle ==
  /\ accessItem = NoItem
  /\ userItem = "absent"
  /\ ticks = 0
  /\ authChecked = FALSE
  /\ view = "Spinner"
  /\ interval = IntervalOff
  /\ logoutPending = FALSE
  /\ authResult = "none"

\* App: the mount effect
checkAuthStatus ==
  /\ ~authChecked
  /\ LET auth == isAuthenticated(accessItem, userItem, CurrentTime)
         ok == auth /\ getUser(userItem) /\ getAccessToken(accessItem)
                    /\ ~isTokenExpired(accessItem, CurrentTime)
     IN  /\ authResult' = IF auth THEN "true" ELSE "false"
         /\ accessItem' = IF auth /\ ~ok THEN NoItem ELSE accessItem
         /\ userItem' = IF auth /\ ~ok THEN "absent" ELSE getUserPurges(userItem)
         /\ Commit(ok, pathname, TRUE)
  /\ UNCHANGED <<ticks, logoutPending>>
  /\ UNCHANGED otherThanApp

\* <Navigate to=... replace />
Redirect ==
  /\ view \in {"Navigate:/dashboard", "Navigate:/login"}
  /\ Commit(user, NavigateTo(view), authChecked)
  /\ UNCHANGED <<accessItem, userItem, ticks, logoutPending, authResult>>
  /\ UNCHANGED otherThanApp

\* Login: <Link to="/register">, and the link back on the registration view
FollowLink ==
  /\ view \in {"Login", "Register"}
  /\ Commit(user, IF view = "Login" THEN "/register" ELSE "/login", authChecked)
  /\ UNCHANGED <<accessItem, userItem, ticks, logoutPending, authResult>>
  /\ UNCHANGED otherThanApp

\* the address bar: a document load at p
OpenUrl(p) ==
  /\ PageLoad(p)
  /\ UNCHANGED <<accessItem, userItem, ticks>>
  /\ UNCHANGED otherThanApp

\* Login.handleSubmit / the registration form, success: setAuthTokens,
\* setUser, onLogin(user) -> App.handleLogin
handleLogin(life) ==
  /\ view \in {"Login", "Register"}
  /\ accessItem' = Jwt(CurrentTime + life * IntervalS)
  /\ userItem' = "object"
  /\ Commit(TRUE, pathname, authChecked)
  /\ UNCHANGED <<ticks, logoutPending, authResult>>
  /\ UNCHANGED otherThanApp

\* a refresh stores a new access token (api.js)
TokenRefreshed(life) ==
  /\ user
  /\ accessItem.kind = "string"
  /\ accessItem' = Jwt(CurrentTime + life * IntervalS)
  /\ UNCHANGED <<userItem, ticks, authChecked, view, interval, logoutPending, authResult>>
  /\ UNCHANGED <<user, pathname>>
  /\ UNCHANGED otherThanApp

\* Dashboard.handleLogout: the logout call is awaited
LogoutStart ==
  /\ view = "Dashboard"
  /\ ~logoutPending
  /\ logoutPending' = TRUE
  /\ UNCHANGED <<accessItem, userItem, ticks, authChecked, view, interval, authResult>>
  /\ UNCHANGED <<user, pathname>>
  /\ UNCHANGED otherThanApp

\* App.handleLogout: setUser(null); clearAuthData()
handleLogout ==
  /\ accessItem' = NoItem
  /\ userItem' = "absent"
  /\ Commit(FALSE, pathname, authChecked)

\* Dashboard.handleLogout after the call has settled: removeAuthTokens(), onLogout()
LogoutFinish ==
  /\ logoutPending
  /\ logoutPending' = FALSE
  /\ handleLogout
  /\ UNCHANGED <<ticks, authResult>>
  /\ UNCHANGED otherThanApp

\* api.js handleAuthFailure: the three keys are removed and, unless the page is
\* at /login, window.location.href = '/login' loads the document again
ForcedExpiry ==
  /\ authChecked
  /\ accessItem' = NoItem
  /\ userItem' = "absent"
  /\ IF pathname # "/login"
     THEN PageLoad("/login")
     ELSE UNCHANGED <<user, pathname, authChecked, view, interval, logoutPending, authResult>>
  /\ UNCHANGED ticks
  /\ UNCHANGED otherThanApp

\* storage of the origin is written from outside the App: another tab, the user
StorageWrite(a, u) ==
  /\ authChecked
  /\ <<a, u>> # <<accessItem, userItem>>
  /\ accessItem' = a
  /\ userItem' = u
  /\ UNCHANGED <<ticks, authChecked, view, interval, logoutPending, authResult>>
  /\ UNCHANGED <<user, pathname>>
  /\ UNCHANGED otherThanApp

\* one check interval of time passes; a timer that is due fires first
Tick ==
  /\ ticks < MaxTicks
  /\ ~(interval.on /\ interval.due <= NowMs)
  /\ ticks' = ticks + 1
  /\ UNCHANGED <<accessItem, userItem, authChecked, view, interval, logoutPending, authResult>>
  /\ UNCHANGED <<user, pathname>>
  /\ UNCHANGED otherThanApp

\* the interval fires: checkTokenExpiration
checkTokenExpiration ==
  /\ interval.on
  /\ interval.due <= NowMs
  /\ IF ~getAccessToken(accessItem) \/ isTokenExpired(accessItem, CurrentTime)
     THEN handleLogout
     ELSE /\ interval' = [interval EXCEPT !.due = @ + CheckIntervalMs]
          /\ UNCHANGED <<accessItem, userItem, authChecked, view, user, pathname>>
  /\ UNCHANGED <<ticks, logoutPending, authResult>>
  /\ UNCHANGED otherThanApp

AppNext ==
  \/ checkAuthStatus
  \/ Redirect
  \/ FollowLink
  \/ \E p \in Paths : OpenUrl(p)
  \/ \E life \in 1..MaxLifetime : handleLogin(life)
  \/ \E life \in 1..MaxLifetime : TokenRefreshed(life)
  \/ LogoutStart
  \/ LogoutFinish
  \/ ForcedExpiry
  \/ \E a \in AccessItems, u \in UserItems : StorageWrite(a, u)
  \/ Tick
  \/ checkTokenExpiration


\* ============================================================ login form
\* components/Login.js: the form, its validation and the mapping of a failed
\* login onto the form's error slots
UsernameValues == {"", " ", "alice"}
PasswordValues == {"", "secret"}

\* keys of the error object the server sends (Django REST Framework)
ServerKeys == {"non_field_errors", "username", "password", "detail"}
\* keys of the errors state the form renders
Slots == {"general", "username", "password"}
ErrKeys == Slots \cup ServerKeys

\* no message under a key: the key is absent, undefined or ''
NoMsg == ""

\* the messages the server sends under a key
FirstMsg(k) ==
  CASE k = "non_field_errors" -> "Unable to log in with provided credentials."
    [] k = "username" -> "username: first message"
    [] k = "password" -> "password: first message"
    [] OTHER -> "detail message"

SecondMsg(k) ==
  CASE k = "non_field_errors" -> "non_field_errors: second message"
    [] k = "username" -> "username: second message"
    [] k = "password" -> "password: second message"
    [] OTHER -> "detail: second message"

\* a value of the error object: absent, a string, or an array of strings
Absent == [isArray |-> FALSE, items |-> <<>>]
Str(m) == [isArray |-> FALSE, items |-> <<m>>]
Arr(ms) == [isArray |-> TRUE, items |-> ms]

\* the server renders the errors of a key as a non-empty list of messages, or
\* as one string; detail is always one string
ValuesOf(k) ==
  IF k = "detail" THEN {Absent, Str(FirstMsg(k))}
  ELSE {Absent, Str(FirstMsg(k)), Arr(<<FirstMsg(k)>>), Arr(<<FirstMsg(k), SecondMsg(k)>>)}

ErrorObjects == {o \in [ServerKeys -> UNION {ValuesOf(k) : k \in ServerKeys}] :
                   \A k \in ServerKeys : o[k] \in ValuesOf(k)}

EmptyObject == [k \in ServerKeys |-> Absent]

\* what authAPI.login rejects with, as the catch block sees it:
\*   response = FALSE: no error.response (the interceptor's network_error
\*     object, or an axios error of a request that got no answer)
\*   kind "empty": error.response.data is '', null or undefined
\*   kind "text": error.response.data is a non-empty string (an HTML error page)
\*   kind "object": error.response.data is a JSON object
NoError == [response |-> FALSE, kind |-> "none", obj |-> EmptyObject]

LoginErrors ==
  {[response |-> FALSE, kind |-> "empty", obj |-> EmptyObject]}
  \cup {[response |-> TRUE, kind |-> k, obj |-> EmptyObject] : k \in {"empty", "text"}}
  \cup {[response |-> TRUE, kind |-> "object", obj |-> o] : o \in ErrorObjects}

NoErrors == [k \in ErrKeys |-> NoMsg]

\* String.prototype.trim on the username values
Trim(s) == IF s = " " THEN "" ELSE s

\* JavaScript truthiness of a value of the error object: an array is truthy
\* even when empty, a string when it is not ''
Truthy(v) == v.isArray \/ (v.items # <<>> /\ v.items[1] # "")

\* Array.isArray(v) ? v[0] : v   (v[0] of an empty array is undefined)
FirstOf(v) == IF v.items = <<>> THEN NoMsg ELSE v.items[1]

\* Object.keys(newErrors).length === 0
NoKeys(o) == \A k \in {"non_field_errors", "username", "password"} : ~Truthy(o[k])

\* handleSubmit of the earlier snapshot: setErrors(serverErrors)
MapLoginError_raw(e) ==
  IF e.response /\ e.kind # "empty"
  THEN IF e.kind = "object"
       THEN [k \in ErrKeys |-> IF k \in ServerKeys /\ Truthy(e.obj[k])
                                THEN FirstOf(e.obj[k]) ELSE NoMsg]
       ELSE [NoErrors EXCEPT !.general = "Invalid username or password"]
  ELSE [NoErrors EXCEPT !.general = "Network error. Please try again."]

\* the catch block of handleSubmit: the errors state it sets
MapLoginError(e) ==
  IF e.response /\ e.kind # "empty"
  THEN IF e.kind = "object"
       THEN [k \in ErrKeys |->
               CASE k = "general" ->
                      IF Truthy(e.obj.non_field_errors) THEN FirstOf(e.obj.non_field_errors)
                      ELSE IF NoKeys(e.obj) THEN "Invalid username or password"
                      ELSE NoMsg
                 [] k \in {"username", "password"} ->
                      IF Truthy(e.obj[k]) THEN FirstOf(e.obj[k]) ELSE NoMsg
                 [] OTHER -> NoMsg]
       ELSE [NoErrors EXCEPT !.general = "Invalid username or password"]
  ELSE [NoErrors EXCEPT !.general = "Network error. Please try again."]

\* validateForm: the errors it sets
validateForm ==
  [k \in ErrKeys |->
     CASE k = "username" -> IF Trim(formData.username) = "" THEN "Username is required"
                            ELSE NoMsg
       [] k = "password" -> IF formData.password = "" THEN "Password is required"
                            ELSE NoMsg
       [] OTHER -> NoMsg]

LoginIdle ==
  /\ formData = [username |-> "", password |-> ""]
  /\ errors = NoErrors
  /\ loading = FALSE
  /\ pending = FALSE
  /\ caught = NoError

\* the form is mounted while the route table renders Login
LoginMounted == ~user /\ pathname = "/login"

\* handleChange: the field is updated, its error and the general error cleared
handleChange(name, value) ==
  /\ LoginMounted
  /\ formData[name] # value
  /\ formData' = [formData EXCEPT ![name] = value]
  /\ errors' = IF errors[name] # NoMsg \/ errors.general # NoMsg
               THEN [errors EXCEPT ![name] = NoMsg, !.general = NoMsg]
               ELSE errors
  /\ UNCHANGED <<loading, pending, caught>>
  /\ UNCHANGED sessionVars
  /\ UNCHANGED otherThanLogin

\* handleSubmit up to await authAPI.login(...); the submit button is disabled
\* while loading
handleSubmit ==
  /\ LoginMounted
  /\ ~loading
  /\ IF validateForm # NoErrors
     THEN /\ errors' = validateForm
          /\ UNCHANGED <<loading, pending, caught>>
     ELSE /\ loading' = TRUE
          /\ errors' = NoErrors
          /\ pending' = TRUE
          /\ caught' = NoError
  /\ UNCHANGED formData
  /\ UNCHANGED sessionVars
  /\ UNCHANGED otherThanLogin

\* handleSubmit after authAPI.login resolved: the default header is set, the
\* tokens and the user stored, onLogin(user); finally setLoading(false)
LoginResolved ==
  /\ pending
  /\ tokenSeq < MaxTok
  /\ pending' = FALSE
  /\ loading' = FALSE
  /\ localStorage' = [StoreTokens(localStorage, tokenSeq + 1, tokenSeq + 1) EXCEPT !.user = TRUE]
  /\ defaultAuth' = tokenSeq + 1
  /\ tokenSeq' = tokenSeq + 1
  /\ user' = TRUE
  /\ pathname' = "/dashboard"
  /\ UNCHANGED <<formData, errors, caught>>
  /\ UNCHANGED otherThanLogin

\* handleSubmit after authAPI.login rejected with e: catch, finally
LoginRejected(e) ==
  /\ pending
  /\ pending' = FALSE
  /\ caught' = e
  /\ errors' = MapLoginError(e)
  /\ loading' = FALSE
  /\ UNCHANGED formData
  /\ UNCHANGED sessionVars
  /\ UNCHANGED otherThanLogin

LoginNext ==
  \/ \E value \in UsernameValues : handleChange("username", value)
  \/ \E value \in PasswordValues : handleChange("password", value)
  \/ handleSubmit
  \/ LoginResolved
  \/ \E e \in LoginErrors : LoginRejected(e)

\* ========================================================== upload modal
\* components/FileUploadModal.js
maxSize == 100 * 1024 * 1024

MaxUploadsDone == 2    \* uploads that succeed in a run

\* selectedFile === null, and no call awaited
NoSelection == -1

\* file.size of the files the user picks
FileSizes == {0, 1, maxSize - 1, maxSize, maxSize + 1, 2 * maxSize}

TagInputs == {"", "a, b"}

\* uploadError === ''
NoUploadError == <<>>

\* what fileAPI.uploadFile rejects with: the interceptor's network_error
\* object, an error without response and without type, a response whose data
\* is empty, a text, or an object with some of file, tags, non_field_errors
UploadFailures ==
  {[kind |-> k, file |-> FALSE, tags |-> FALSE, non_field_errors |-> FALSE] :
     k \in {"network_error", "no_response", "empty", "text"}}
  \cup [kind : {"object"}, file : BOOLEAN, tags : BOOLEAN, non_field_errors : BOOLEAN]

validateFile_never(size) == NoUploadError

\* validateFile: the message, or null
validateFile(size) ==
  IF size > maxSize THEN <<"File size must be less than 100MB">> ELSE NoUploadError

\* the catch block of handleUpload: the message it sets
UploadErrorOf(e) ==
  CASE e.kind = "object" ->
         LET parts == (IF e.file THEN <<"File: errorData.file">> ELSE <<>>)
                      \o (IF e.tags THEN <<"Tags: errorData.tags">> ELSE <<>>)
                      \o (IF e.non_field_errors THEN <<"errorData.non_field_errors">> ELSE <<>>)
         IN  IF parts = <<>> THEN <<"Upload failed">> ELSE parts
    [] e.kind = "text" -> <<"errorData">>
    [] e.kind = "network_error" -> <<"Network error. Please check your connection.">>
    [] OTHER -> <<"Upload failed. Please try again.">>

UploadIdle ==
  /\ isOpen = FALSE
  /\ selectedFile = NoSelection
  /\ tags = ""
  /\ isUploading = FALSE
  /\ uploadError = NoUploadError
  /\ dragActive = FALSE
  /\ uploadRequest = NoSelection
  /\ uploadCalls = {}
  /\ notifications = <<>>

\* Dashboard: the upload button opens the modal
OpenUploadModal ==
  /\ ~isOpen
  /\ isOpen' = TRUE
  /\ UNCHANGED <<selectedFile, tags, isUploading, uploadError, dragActive, uploadRequest,
                 uploadCalls, notifications>>
  /\ UNCHANGED otherThanUpload

\* handleClose: resetModal(), onClose(), unless an upload is running
handleClose ==
  /\ isOpen
  /\ IF ~isUploading
     THEN /\ selectedFile' = NoSelection
          /\ tags' = ""
          /\ uploadError' = NoUploadError
          /\ isUploading' = FALSE
          /\ dragActive' = FALSE
          /\ isOpen' = FALSE
     ELSE UNCHANGED <<selectedFile, tags, uploadError, isUploading, dragActive, isOpen>>
  /\ UNCHANGED <<uploadRequest, uploadCalls, notifications>>
  /\ UNCHANGED otherThanUpload

\* handleFileSelect: the file input is disabled while uploading
handleFileSelect(size) ==
  /\ isOpen
  /\ ~isUploading
  /\ selectedFile' = size
  /\ uploadError' = NoUploadError
  /\ UNCHANGED <<isOpen, tags, isUploading, dragActive, uploadRequest, uploadCalls, notifications>>
  /\ UNCHANGED otherThanUpload

\* handleDrag: dragenter and dragover set dragActive, dragleave clears it
handleDrag(type) ==
  /\ isOpen
  /\ dragActive' = (type \in {"dragenter", "dragover"})
  /\ UNCHANGED <<isOpen, selectedFile, tags, isUploading, uploadError, uploadRequest,
                 uploadCalls, notifications>>
  /\ UNCHANGED otherThanUpload

\* handleDrop of a file; the drop area is not disabled while uploading
handleDrop(size) ==
  /\ isOpen
  /\ dragActive' = FALSE
  /\ selectedFile' = size
  /\ uploadError' = NoUploadError
  /\ UNCHANGED <<isOpen, tags, isUploading, uploadRequest, uploadCalls, notifications>>
  /\ UNCHANGED otherThanUpload

\* the remove button under the selected file: setSelectedFile(null)
RemoveSelectedFile ==
  /\ isOpen
  /\ ~isUploading
  /\ selectedFile # NoSelection
  /\ selectedFile' = NoSelection
  /\ UNCHANGED <<isOpen, tags, isUploading, uploadError, dragActive, uploadRequest,
                 uploadCalls, notifications>>
  /\ UNCHANGED otherThanUpload

\* the tags input: setTags(e.target.value)
ChangeTags(t) ==
  /\ isOpen
  /\ ~isUploading
  /\ tags # t
  /\ tags' = t
  /\ UNCHANGED <<isOpen, selectedFile, isUploading, uploadError, dragActive, uploadRequest,
                 uploadCalls, notifications>>
  /\ UNCHANGED otherThanUpload

\* handleUpload up to await fileAPI.uploadFile(formData); the form cannot be
\* submitted while uploading
handleUpload ==
  /\ isOpen
  /\ ~isUploading
  /\ IF selectedFile = NoSelection
     THEN /\ uploadError' = <<"Please select a file to upload">>
          /\ UNCHANGED <<isUploading, uploadRequest, uploadCalls, notifications>>
     ELSE IF validateFile(selectedFile) # NoUploadError
     THEN /\ uploadError' = validateFile(selectedFile)
          /\ UNCHANGED <<isUploading, uploadRequest, uploadCalls, notifications>>
     ELSE /\ isUploading' = TRUE
          /\ uploadError' = NoUploadError
          /\ uploadRequest' = selectedFile
          /\ uploadCalls' = uploadCalls \cup {selectedFile}
          /\ UNCHANGED notifications
  /\ UNCHANGED <<isOpen, selectedFile, tags, dragActive>>
  /\ UNCHANGED otherThanUpload

\* handleUpload after the call resolved: onUploadSuccess, resetModal(),
\* onClose(); finally setIsUploading(false)
UploadResolved ==
  /\ uploadRequest # NoSelection
  /\ Len(notifications) < MaxUploadsDone
  /\ uploadRequest' = NoSelection
  /\ selectedFile' = NoSelection
  /\ tags' = ""
  /\ uploadError' = NoUploadError
  /\ isUploading' = FALSE
  /\ dragActive' = FALSE
  /\ isOpen' = FALSE
  /\ notifications' = Append(notifications, uploadRequest)
  /\ UNCHANGED uploadCalls
  /\ UNCHANGED otherThanUpload

UploadRejected_resets(e) ==
  /\ uploadRequest # NoSelection
  /\ uploadRequest' = NoSelection
  /\ uploadError' = UploadErrorOf(e)
  /\ selectedFile' = NoSelection
  /\ tags' = ""
  /\ isUploading' = FALSE
  /\ UNCHANGED <<isOpen, dragActive, uploadCalls, notifications>>
  /\ UNCHANGED otherThanUpload

\* handleUpload after the call rejected with e: catch, finally; the modal
\* stays open with its selection
UploadRejected(e) ==
  /\ uploadRequest # NoSelection
  /\ uploadRequest' = NoSelection
  /\ uploadError' = UploadErrorOf(e)
  /\ isUploading' = FALSE
  /\ UNCHANGED <<isOpen, selectedFile, tags, dragActive, uploadCalls, notifications>>
  /\ UNCHANGED otherThanUpload

UploadNext ==
  \/ OpenUploadModal
  \/ handleClose
  \/ \E size \in FileSizes : handleFileSelect(size)
  \/ \E type \in {"dragenter", "dragover", "dragleave"} : handleDrag(type)
  \/ \E size \in FileSizes : handleDrop(size)
  \/ RemoveSelectedFile
  \/ \E t \in TagInputs : ChangeTags(t)
  \/ handleUpload
  \/ UploadResolved
  \/ \E e \in UploadFailures : UploadRejected(e)

\* ========================================================= byte formatter
\* formatBytes of Dashboard.js and FileDetailsModal.js, formatFileSize of
\* FileUploadModal.js: the three have the same body
NumSamples == 30    \* sizes sampled per unit

unitBase == 1024
sizes == <<"Bytes", "KB", "MB", "GB">>

\* sizes shown: storage_used, storage_quota, file sizes
ByteInputs ==
  {0, 1, 1023, 1024, 1025, 1048575, 1048576, 1073741823, 1073741824, 2147483647}
  \cup {j * 1536 : j \in 1..NumSamples}
  \cup {j * 1100000 : j \in 1..NumSamples}
  \cup {j * 53687091 : j \in 1..NumSamples}

NotRendered == ""

RECURSIVE Pow(_, _)
\* Math.pow(k, i)
Pow(b, i) == IF i = 0 THEN 1 ELSE b * Pow(b, i - 1)

\* Math.floor(Math.log(bytes) / Math.log(k)) for bytes >= 1: the largest i
\* with k^i <= bytes (bytes stay below k^4 here)
FloorLog(b) == CHOOSE i \in 0..3 : Pow(unitBase, i) <= b /\ (i < 3 => b < Pow(unitBase, i + 1))

\* (bytes / Math.pow(k, i)).toFixed(1), as the number of tenths: the quotient
\* is exact, toFixed rounds it to the nearest tenth, a tie upwards; the
\* remainder is split so that no product leaves 32 bits
toFixed1(b, p) ==
  LET q == b \div p
      r == b % p
      t == IF p <= 1048576 THEN (r * 10 + p \div 2) \div p
           ELSE ((r \div 1024) * 10 + (p \div 1024) \div 2 + ((r % 1024) * 10) \div 1024)
                \div (p \div 1024)
  IN  q * 10 + t

NumberToString_fixed(n) == ToString(n \div 10) \o "." \o ToString(n % 10)

\* parseFloat(...) + ' ': the number, n tenths, converted to a string; a whole
\* number has no decimal point
NumberToString(n) ==
  IF n % 10 = 0 THEN ToString(n \div 10)
  ELSE ToString(n \div 10) \o "." \o ToString(n % 10)

formatBytes(b) ==
  IF b = 0 THEN "0 Bytes"
  ELSE LET i == FloorLog(b)
       IN  NumberToString(toFixed1(b, Pow(unitBase, i))) \o " " \o sizes[i + 1]

FormatIdle ==
  /\ bytes = 0
  /\ rendered = NotRendered

FormatInit ==
  /\ bytes \in ByteInputs
  /\ rendered = NotRendered

\* a render: {formatBytes(size)}
Render ==
  /\ rendered = NotRendered
  /\ rendered' = formatBytes(bytes)
  /\ UNCHANGED bytes
  /\ UNCHANGED otherThanFormat

\* another size is to be shown
NewSize(b) ==
  /\ rendered # NotRendered
  /\ b # bytes
  /\ bytes' = b
  /\ rendered' = NotRendered
  /\ UNCHANGED otherThanFormat

FormatNext ==
  \/ Render
  \/ \E b \in ByteInputs : NewSize(b)

\* ===================================================== file-details modal
\* components/FileDetailsModal.js
NumFiles == 2       \* files in the list the modal is opened from
MaxConfirms == 3    \* clicks on the Delete button in one run

FileIds == 1..NumFiles
\* fileDetails === null, and no delete call in flight
NoDetails == 0

\* error === ''
NoErrorText == ""

\* what fileAPI.getFileDetails and fileAPI.deleteFile reject with
ApiFailures == {"404", "401", "403", "network_error", "other"}

\* the catch block of fetchFileDetails: the message it sets
FetchErrorOf(e) ==
  CASE e = "404" -> "File not found or you do not have permission to view it."
    [] e = "401" -> "Session expired. Please log in again."
    [] e = "network_error" -> "Network error. Please check your connection."
    [] OTHER -> "Failed to load file details. Please try again."

\* the catch block of handleDeleteFile: the message it sets
DeleteErrorOf(e) ==
  CASE e = "404" -> "File not found or already deleted."
    [] e = "401" -> "Session expired. Please log in again."
    [] e = "403" -> "You do not have permission to delete this file."
    [] e = "network_error" -> "Network error. Please check your connection."
    [] OTHER -> "Failed to delete file. Please try again."

DetailsIdle ==
  /\ detailsOpen = FALSE
  /\ fileId = 1
  /\ fileDetails = NoDetails
  /\ isLoading = FALSE
  /\ detailsError = NoErrorText
  /\ isDeleting = FALSE
  /\ showDeleteConfirm = FALSE
  /\ fetches = {}
  /\ deleteRequest = NoDetails
  /\ confirms = 0
  /\ deletes = 0

\* the block {fileDetails && (...)}: the details, the confirmation panel and
\* the action buttons are rendered
DetailsShown == detailsOpen /\ fileDetails # NoDetails

\* {showDeleteConfirm && (...)} inside the details block
ConfirmPanelShown == DetailsShown /\ showDeleteConfirm

\* the parent opens the modal for a file; the effect on [isOpen, fileId] runs
\* fetchFileDetails up to its await
OpenDetails(f) ==
  /\ ~detailsOpen
  /\ detailsOpen' = TRUE
  /\ fileId' = f
  /\ isLoading' = TRUE
  /\ detailsError' = NoErrorText
  /\ fileDetails' = NoDetails
  /\ fetches' = fetches \cup {f}
  /\ UNCHANGED <<isDeleting, showDeleteConfirm, deleteRequest, confirms, deletes>>
  /\ UNCHANGED otherThanDetails

\* the Retry button of the error box: fetchFileDetails up to its await
RetryFetch ==
  /\ detailsOpen
  /\ detailsError # NoErrorText
  /\ isLoading' = TRUE
  /\ detailsError' = NoErrorText
  /\ fileDetails' = NoDetails
  /\ fetches' = fetches \cup {fileId}
  /\ UNCHANGED <<detailsOpen, fileId, isDeleting, showDeleteConfirm, deleteRequest, confirms,
                 deletes>>
  /\ UNCHANGED otherThanDetails

\* fetchFileDetails after the call for file f resolved: setFileDetails, finally
FetchResolved(f) ==
  /\ f \in fetches
  /\ fetches' = fetches \ {f}
  /\ fileDetails' = f
  /\ isLoading' = FALSE
  /\ UNCHANGED <<detailsOpen, fileId, detailsError, isDeleting, showDeleteConfirm, deleteRequest,
                 confirms, deletes>>
  /\ UNCHANGED otherThanDetails

\* fetchFileDetails after the call for file f rejected with e: catch, finally
FetchRejected(f, e) ==
  /\ f \in fetches
  /\ fetches' = fetches \ {f}
  /\ detailsError' = FetchErrorOf(e)
  /\ isLoading' = FALSE
  /\ UNCHANGED <<detailsOpen, fileId, fileDetails, isDeleting, showDeleteConfirm,
                 deleteRequest, confirms, deletes>>
  /\ UNCHANGED otherThanDetails

DetailsClose_keepsError ==
  /\ detailsOpen
  /\ fileDetails' = NoDetails
  /\ showDeleteConfirm' = FALSE
  /\ detailsOpen' = FALSE
  /\ UNCHANGED <<fileId, isLoading, isDeleting, fetches, deleteRequest, confirms, deletes,
                 detailsError>>
  /\ UNCHANGED otherThanDetails

\* handleClose from the x button (never disabled) or the Close button
\* (disabled while deleting): the state is reset, onClose()
DetailsClose ==
  /\ detailsOpen
  /\ fileDetails' = NoDetails
  /\ detailsError' = NoErrorText
  /\ showDeleteConfirm' = FALSE
  /\ detailsOpen' = FALSE
  /\ UNCHANGED <<fileId, isLoading, isDeleting, fetches, deleteRequest, confirms, deletes>>
  /\ UNCHANGED otherThanDetails

\* confirmDelete: the Delete button of the action row
confirmDelete ==
  /\ DetailsShown
  /\ ~(isDeleting \/ isLoading)
  /\ confirms < MaxConfirms
  /\ showDeleteConfirm' = TRUE
  /\ confirms' = confirms + 1
  /\ UNCHANGED <<detailsOpen, fileId, fileDetails, isLoading, detailsError, isDeleting, fetches,
                 deleteRequest, deletes>>
  /\ UNCHANGED otherThanDetails

\* cancelDelete: the Cancel button of the confirmation panel
cancelDelete ==
  /\ ConfirmPanelShown
  /\ ~isDeleting
  /\ showDeleteConfirm' = FALSE
  /\ UNCHANGED <<detailsOpen, fileId, fileDetails, isLoading, detailsError, isDeleting, fetches,
                 deleteRequest, confirms, deletes>>
  /\ UNCHANGED otherThanDetails

\* handleDeleteFile, the Delete File button of the confirmation panel, up to
\* await fileAPI.deleteFile(fileId)
handleDeleteFile ==
  /\ ConfirmPanelShown
  /\ ~isDeleting
  /\ isDeleting' = TRUE
  /\ detailsError' = NoErrorText
  /\ deleteRequest' = fileId
  /\ deletes' = deletes + 1
  /\ UNCHANGED <<detailsOpen, fileId, fileDetails, isLoading, showDeleteConfirm, fetches,
                 confirms>>
  /\ UNCHANGED otherThanDetails

\* handleDeleteFile after the call resolved: onFileDeleted(fileId),
\* handleClose(); finally
DeleteResolved ==
  /\ deleteRequest # NoDetails
  /\ deleteRequest' = NoDetails
  /\ fileDetails' = NoDetails
  /\ detailsError' = NoErrorText
  /\ detailsOpen' = FALSE
  /\ isDeleting' = FALSE
  /\ showDeleteConfirm' = FALSE
  /\ UNCHANGED <<fileId, isLoading, fetches, confirms, deletes>>
  /\ UNCHANGED otherThanDetails

DeleteRejected_keepsConfirm(e) ==
  /\ deleteRequest # NoDetails
  /\ deleteRequest' = NoDetails
  /\ detailsError' = DeleteErrorOf(e)
  /\ isDeleting' = FALSE
  /\ UNCHANGED <<detailsOpen, fileId, fileDetails, isLoading, fetches, confirms, deletes,
                 showDeleteConfirm>>
  /\ UNCHANGED otherThanDetails

\* handleDeleteFile after the call rejected with e: catch, finally
DeleteRejected(e) ==
  /\ deleteRequest # NoDetails
  /\ deleteRequest' = NoDetails
  /\ detailsError' = DeleteErrorOf(e)
  /\ isDeleting' = FALSE
  /\ showDeleteConfirm' = FALSE
  /\ UNCHANGED <<detailsOpen, fileId, fileDetails, isLoading, fetches, confirms, deletes>>
  /\ UNCHANGED otherThanDetails

DetailsNext ==
  \/ \E f \in FileIds : OpenDetails(f)
  \/ RetryFetch
  \/ \E f \in FileIds : FetchResolved(f)
  \/ \E f \in FileIds, e \in ApiFailures : FetchRejected(f, e)
  \/ DetailsClose
  \/ confirmDelete
  \/ cancelDelete
  \/ handleDeleteFile
  \/ DeleteResolved
  \/ \E e \in ApiFailures : DeleteRejected(e)

\* ============================================================== dashboard
\* Dashboard.js: the file list with its filters and pagination, and the
\* profile it shows
sliderMax == 1073741824    \* max of both range inputs; also "no upper bound"
sliderStep == 1048576      \* step of both range inputs

MaxCount == 25             \* files the server reports at most
MaxPagedCount == 85        \* files of a long list
MaxFetches == 5            \* fileAPI.getFiles calls in one run
MaxUserRequests == 1       \* authAPI.getCurrentUser calls in flight at once

\* Math.ceil(a / b) for a >= 0, b > 0
CeilDiv(a, b) == (a + b - 1) \div b

\* positions the sliders are moved to
SliderStops == {0, sliderStep}

\* options of the page-size selector that are chosen
PageSizeOptions == {10, 20}

\* data.count of the list responses
Counts == {0, MaxCount}

\* data.count of the responses for a long list
PagedCounts == {5, 45, MaxPagedCount}

\* page numbers a control can ask for when the list has at most n files
PageRange(n) == 0..(CeilDiv(n, 5) + 1)

\* texts typed into the search box, as sequences of characters
SearchInputs == {<<>>, <<" ", "a">>}

\* a size parameter that is not sent
NoParam == -1

\* storage_quota missing from the profile, and currentUser === null
NoQuota == -1
NoUser == [storage_used |-> 0, storage_quota |-> NoQuota]

\* profiles the server answers with
ProfileSamples == {[storage_used |-> 48, storage_quota |-> 64]}

MaxUsed == 300             \* storage_used of the profiles whose bar is shown

\* storage_quota of the profiles whose bar is shown: missing, 0, and powers
\* of two, for which used / quota * 100 is exact in floating point
StorageQuotas == {NoQuota, 0, 64, 256}

StorageInputs == [storage_used : 0..MaxUsed, storage_quota : StorageQuotas]

\* Math.round(a / b) for a >= 0, b > 0: halves are rounded up
RoundDiv(a, b) == (2 * a + b) \div (2 * b)

getStoragePercentage_floor(u) ==
  IF u.storage_quota = NoQuota \/ u.storage_quota = 0
  THEN 0
  ELSE (u.storage_used * 100) \div u.storage_quota

\* getStoragePercentage of currentUser = u
getStoragePercentage(u) ==
  IF u.storage_quota = NoQuota \/ u.storage_quota = 0
  THEN 0
  ELSE RoundDiv(u.storage_used * 100, u.storage_quota)

\* the storage bar: width in percent, and backgroundColor
BarWidth(u) == IF getStoragePercentage(u) < 100 THEN getStoragePercentage(u) ELSE 100

BarColour(u) ==
  IF getStoragePercentage(u) > 90 THEN "#ef4444"
  ELSE IF getStoragePercentage(u) > 75 THEN "#f59e0b"
  ELSE "#10b981"

RECURSIVE trimStart(_)
trimStart(s) == IF s # <<>> /\ Head(s) = " " THEN trimStart(Tail(s)) ELSE s

RECURSIVE trimEnd(_)
trimEnd(s) == IF s # <<>> /\ s[Len(s)] = " " THEN trimEnd(SubSeq(s, 1, Len(s) - 1)) ELSE s

\* String.prototype.trim
trimText(s) == trimEnd(trimStart(s))

\* fetchFiles: the params object it builds from the state its closure holds;
\* filename, size_min and size_max are left out when the filter is not active
FetchParams(page, size, term, smin, smax) ==
  [page |-> page,
   page_size |-> size,
   filename |-> trimText(term),
   size_min |-> IF smin > 0 THEN smin ELSE NoParam,
   size_max |-> IF smax < sliderMax THEN smax ELSE NoParam]

\* files === [] before any response
NoList == [loaded |-> FALSE, params |-> FetchParams(1, 10, <<>>, 0, sliderMax), count |-> 0]

\* files.length > 0: the response shown has results on its page
filesShown ==
  files.loaded /\ (files.params.page - 1) * files.params.page_size < files.count

\* !!data.next and !!data.previous of the response shown
hasNext == files.loaded /\ files.params.page * files.params.page_size < files.count
hasPrevious == files.loaded /\ files.params.page > 1

\* hasActiveFilters of the values t, mn, mx
ActiveFilters(t, mn, mx) == t # <<>> \/ mn > 0 \/ mx < sliderMax

\* the numbered page buttons: Array.from({ length: Math.min(5, totalPages) }, ...)
PageButtons_centred(cp, tp) ==
  {cp - 2 + i : i \in 0..((IF tp < 5 THEN tp ELSE 5) - 1)}

PageButtons(cp, tp) ==
  {(IF tp <= 5 THEN i + 1
    ELSE IF cp <= 3 THEN i + 1
    ELSE IF cp >= tp - 2 THEN tp - 4 + i
    ELSE cp - 2 + i) : i \in 0..((IF tp < 5 THEN tp ELSE 5) - 1)}

\* targets of the pagination controls that are enabled: the numbered buttons,
\* Previous unless !hasPrevious, Next unless !hasNext
PageTargets ==
  PageButtons(currentPage, totalPages)
  \cup (IF hasPrevious THEN {currentPage - 1} ELSE {})
  \cup (IF hasNext THEN {currentPage + 1} ELSE {})

\* the effects that run after a render with page p, page size ps and active
\* filters t, mn, mx: the refetch effect when one of its five dependencies
\* changed; the page-reset effect when a filter changed, a filter is active
\* and the page is not 1, which renders again and refetches for page 1
DepsChanged(p, ps, t, mn, mx) ==
  <<p, ps, t, mn, mx>> # <<currentPage, pageSize, activeSearchTerm, activeSizeMin, activeSizeMax>>

ResetsPage(p, t, mn, mx) ==
  /\ <<t, mn, mx>> # <<activeSearchTerm, activeSizeMin, activeSizeMax>>
  /\ ActiveFilters(t, mn, mx)
  /\ p # 1

EffectFetches(p, ps, t, mn, mx) ==
  (IF DepsChanged(p, ps, t, mn, mx) THEN <<FetchParams(p, ps, t, mn, mx)>> ELSE <<>>)
  \o (IF ResetsPage(p, t, mn, mx) THEN <<FetchParams(1, ps, t, mn, mx)>> ELSE <<>>)

\* a handler has set page p, page size ps and active filters t, mn, mx and
\* has itself called fetchFiles as listed in own; React renders, the effects
\* run, and every fetchFiles call clears filesError and, unless called with
\* showLoading false, sets isLoadingFiles
Rerender(p, ps, t, mn, mx, own) ==
  LET eff == EffectFetches(p, ps, t, mn, mx)
      made == own \o [i \in 1..Len(eff) |-> [params |-> eff[i], showLoading |-> TRUE]]
  IN  /\ fetchCalls + Len(made) <= MaxFetches
      /\ fetchCalls' = fetchCalls + Len(made)
      /\ currentPage' = IF ResetsPage(p, t, mn, mx) THEN 1 ELSE p
      /\ pageSize' = ps
      /\ activeSearchTerm' = t
      /\ activeSizeMin' = mn
      /\ activeSizeMax' = mx
      /\ listRequests' = listRequests \o made
      /\ isLoadingFiles' = (isLoadingFiles \/ \E i \in 1..Len(made) : made[i].showLoading)
      /\ filesError' = (filesError /\ made = <<>>)

\* the dashboard before it is mounted
DashIdle ==
  /\ currentPage = 1
  /\ pageSize = 10
  /\ totalPages = 0
  /\ isLoadingFiles = FALSE
  /\ filesError = FALSE
  /\ searchTerm = <<>>
  /\ activeSearchTerm = <<>>
  /\ sizeMin = 0
  /\ sizeMax = sliderMax
  /\ activeSizeMin = 0
  /\ activeSizeMax = sliderMax
  /\ files = NoList
  /\ listRequests = <<>>
  /\ fetchCalls = 0
  /\ userRequests = 0
  /\ uploadSettling = FALSE
  /\ currentUser = NoUser

\* the dashboard after its first render: the mount effect has called
\* fetchUserData() and fetchFiles(), the refetch effect fetchFiles() again
DashInit ==
  /\ currentPage = 1
  /\ pageSize = 10
  /\ totalPages = 0
  /\ isLoadingFiles = TRUE
  /\ filesError = FALSE
  /\ searchTerm = <<>>
  /\ activeSearchTerm = <<>>
  /\ sizeMin = 0
  /\ sizeMax = sliderMax
  /\ activeSizeMin = 0
  /\ activeSizeMax = sliderMax
  /\ files = NoList
  /\ listRequests = [i \in 1..2 |-> [params |-> FetchParams(1, 10, <<>>, 0, sliderMax),
                                      showLoading |-> TRUE]]
  /\ fetchCalls = 2
  /\ userRequests = 1
  /\ uploadSettling = FALSE
  /\ currentUser = NoUser

\* the sequence s without its i-th element
RemoveAt(s, i) == SubSeq(s, 1, i - 1) \o SubSeq(s, i + 1, Len(s))

\* fetchFiles after fileAPI.getFiles resolved with data.count = count; the
\* server answers a page that exists (page 1 always does)
ListResolved(i, count) ==
  /\ i \in DOMAIN listRequests
  /\ LET req == listRequests[i]
     IN  /\ req.params.page = 1 \/ (req.params.page - 1) * req.params.page_size < count
         /\ files' = [loaded |-> TRUE, params |-> req.params, count |-> count]
         /\ totalPages' = CeilDiv(count, req.params.page_size)
         /\ isLoadingFiles' = (isLoadingFiles /\ ~req.showLoading)
  /\ listRequests' = RemoveAt(listRequests, i)
  /\ UNCHANGED fetchCalls
  /\ UNCHANGED <<currentPage, pageSize, filesError, searchTerm, activeSearchTerm, sizeMin,
                 sizeMax, activeSizeMin, activeSizeMax, userRequests, currentUser>>
  /\ UNCHANGED uploadSettling
  /\ UNCHANGED otherThanDash

\* fetchFiles after fileAPI.getFiles rejected: catch, finally
ListRejected(i) ==
  /\ i \in DOMAIN listRequests
  /\ filesError' = TRUE
  /\ isLoadingFiles' = (isLoadingFiles /\ ~listRequests[i].showLoading)
  /\ listRequests' = RemoveAt(listRequests, i)
  /\ UNCHANGED fetchCalls
  /\ UNCHANGED <<currentPage, pageSize, totalPages, searchTerm, activeSearchTerm, sizeMin,
                 sizeMax, activeSizeMin, activeSizeMax, files, userRequests, currentUser>>
  /\ UNCHANGED uploadSettling
  /\ UNCHANGED otherThanDash

\* handleRefreshFiles: fetchFiles(true); the button of the toolbar is disabled
\* while isLoadingFiles, the one in the error box is not
handleRefreshFiles ==
  /\ ~isLoadingFiles \/ filesError
  /\ Rerender(currentPage, pageSize, activeSearchTerm, activeSizeMin, activeSizeMax,
            <<[params |-> FetchParams(currentPage, pageSize, activeSearchTerm,
                                      activeSizeMin, activeSizeMax),
               showLoading |-> TRUE]>>)
  /\ UNCHANGED <<totalPages, searchTerm, sizeMin, sizeMax, files, userRequests, currentUser>>
  /\ uploadSettling' = FALSE
  /\ UNCHANGED otherThanDash

\* handleUploadSuccess: fetchUserData(false); setCurrentPage(1);
\* fetchFiles(false), whose closure still holds the page of this render
handleUploadSuccess ==
  /\ userRequests < MaxUserRequests
  /\ userRequests' = userRequests + 1
  /\ Rerender(1, pageSize, activeSearchTerm, activeSizeMin, activeSizeMax,
            <<[params |-> FetchParams(currentPage, pageSize, activeSearchTerm,
                                      activeSizeMin, activeSizeMax),
               showLoading |-> FALSE]>>)
  /\ UNCHANGED <<totalPages, searchTerm, sizeMin, sizeMax, files, currentUser>>
  /\ uploadSettling' = (listRequests = <<>>)
  /\ UNCHANGED otherThanDash

\* handlePageChange from a pagination control; the controls are rendered under
\* the list when totalPages > 1 and disabled while isLoadingFiles
handlePageChange(newPage) ==
  /\ ~isLoadingFiles
  /\ totalPages > 1
  /\ filesShown
  /\ newPage \in PageTargets
  /\ IF newPage >= 1 /\ newPage <= totalPages
     THEN Rerender(newPage, pageSize, activeSearchTerm, activeSizeMin, activeSizeMax, <<>>)
     ELSE UNCHANGED <<currentPage, pageSize, activeSearchTerm, activeSizeMin, activeSizeMax,
                     listRequests, fetchCalls, isLoadingFiles, filesError>>
  /\ UNCHANGED <<totalPages, searchTerm, sizeMin, sizeMax, files, userRequests, currentUser>>
  /\ uploadSettling' = (uploadSettling /\ ~(newPage >= 1 /\ newPage <= totalPages))
  /\ UNCHANGED otherThanDash

\* handlePageSizeChange: setPageSize(newPageSize); setCurrentPage(1)
handlePageSizeChange(newPageSize) ==
  /\ ~isLoadingFiles
  /\ Rerender(1, newPageSize, activeSearchTerm, activeSizeMin, activeSizeMax, <<>>)
  /\ UNCHANGED <<totalPages, searchTerm, sizeMin, sizeMax, files, userRequests, currentUser>>
  /\ uploadSettling' = FALSE
  /\ UNCHANGED otherThanDash

\* handleSearchChange: typing in the search box
handleSearchChange(text) ==
  /\ ~isLoadingFiles
  /\ searchTerm' = text
  /\ UNCHANGED <<currentPage, pageSize, totalPages, isLoadingFiles, filesError,
                 activeSearchTerm, sizeMin, sizeMax, activeSizeMin, activeSizeMax, files,
                 listRequests, fetchCalls, userRequests, currentUser>>
  /\ UNCHANGED uploadSettling
  /\ UNCHANGED otherThanDash

handleSearch_keepsPage ==
  /\ ~isLoadingFiles
  /\ Rerender(currentPage, pageSize, trimText(searchTerm), sizeMin, sizeMax, <<>>)
  /\ UNCHANGED <<totalPages, searchTerm, sizeMin, sizeMax, files, userRequests, currentUser>>
  /\ uploadSettling' = FALSE
  /\ UNCHANGED otherThanDash

\* handleSearch (the Filter button, or Enter in the search box): the typed
\* term and the slider values become the active filters, the page becomes 1
handleSearch ==
  /\ ~isLoadingFiles
  /\ Rerender(1, pageSize, trimText(searchTerm), sizeMin, sizeMax, <<>>)
  /\ UNCHANGED <<totalPages, searchTerm, sizeMin, sizeMax, files, userRequests, currentUser>>
  /\ uploadSettling' = FALSE
  /\ UNCHANGED otherThanDash

\* handleClearSearch: the Clear button next to Filter (disabled while
\* isLoadingFiles) and the ones of the filter banner (shown unless
\* isLoadingFiles)
handleClearSearch ==
  /\ ~isLoadingFiles
  /\ \/ searchTerm # <<>> \/ sizeMin > 0 \/ sizeMax < sliderMax
     \/ ActiveFilters(activeSearchTerm, activeSizeMin, activeSizeMax)
  /\ searchTerm' = <<>>
  /\ sizeMin' = 0
  /\ sizeMax' = sliderMax
  /\ Rerender(1, pageSize, <<>>, 0, sliderMax, <<>>)
  /\ UNCHANGED <<totalPages, files, userRequests, currentUser>>
  /\ uploadSettling' = FALSE
  /\ UNCHANGED otherThanDash

handleSizeMinChange_alone(value) ==
  /\ ~isLoadingFiles
  /\ sizeMin' = value
  /\ UNCHANGED sizeMax
  /\ UNCHANGED <<currentPage, pageSize, totalPages, isLoadingFiles, filesError, searchTerm,
                 activeSearchTerm, activeSizeMin, activeSizeMax, files, listRequests,
                 fetchCalls, userRequests, currentUser>>
  /\ UNCHANGED uploadSettling
  /\ UNCHANGED otherThanDash

\* handleSizeMinChange: the min slider is moved to value
handleSizeMinChange(value) ==
  /\ ~isLoadingFiles
  /\ sizeMin' = value
  /\ sizeMax' = IF value > sizeMax THEN value ELSE sizeMax
  /\ UNCHANGED <<currentPage, pageSize, totalPages, isLoadingFiles, filesError, searchTerm,
                 activeSearchTerm, activeSizeMin, activeSizeMax, files, listRequests,
                 fetchCalls, userRequests, currentUser>>
  /\ UNCHANGED uploadSettling
  /\ UNCHANGED otherThanDash

\* handleSizeMaxChange: the max slider is moved to value
handleSizeMaxChange(value) ==
  /\ ~isLoadingFiles
  /\ sizeMax' = value
  /\ sizeMin' = IF value < sizeMin THEN value ELSE sizeMin
  /\ UNCHANGED <<currentPage, pageSize, totalPages, isLoadingFiles, filesError, searchTerm,
                 activeSearchTerm, activeSizeMin, activeSizeMax, files, listRequests,
                 fetchCalls, userRequests, currentUser>>
  /\ UNCHANGED uploadSettling
  /\ UNCHANGED otherThanDash

\* handleRefreshUserData: fetchUserData(true)
handleRefreshUserData ==
  /\ userRequests < MaxUserRequests
  /\ userRequests' = userRequests + 1
  /\ UNCHANGED <<currentPage, pageSize, totalPages, isLoadingFiles, filesError, searchTerm,
                 activeSearchTerm, sizeMin, sizeMax, activeSizeMin, activeSizeMax, files,
                 listRequests, fetchCalls, currentUser>>
  /\ UNCHANGED uploadSettling
  /\ UNCHANGED otherThanDash

\* fetchUserData after authAPI.getCurrentUser resolved: setCurrentUser(response.data)
UserResolved(u) ==
  /\ userRequests > 0
  /\ userRequests' = userRequests - 1
  /\ currentUser' = u
  /\ UNCHANGED <<currentPage, pageSize, totalPages, isLoadingFiles, filesError, searchTerm,
                 activeSearchTerm, sizeMin, sizeMax, activeSizeMin, activeSizeMax, files,
                 listRequests, fetchCalls>>
  /\ UNCHANGED uploadSettling
  /\ UNCHANGED otherThanDash

\* fetchUserData after authAPI.getCurrentUser rejected: currentUser is kept
UserRejected ==
  /\ userRequests > 0
  /\ userRequests' = userRequests - 1
  /\ UNCHANGED <<currentPage, pageSize, totalPages, isLoadingFiles, filesError, searchTerm,
                 activeSearchTerm, sizeMin, sizeMax, activeSizeMin, activeSizeMax, files,
                 listRequests, fetchCalls, currentUser>>
  /\ UNCHANGED uploadSettling
  /\ UNCHANGED otherThanDash

\* an upload succeeds while the user pages through the list and searches it
DashNext ==
  \/ \E i \in 1..MaxFetches, count \in Counts : ListResolved(i, count)
  \/ \E i \in 1..MaxFetches : ListRejected(i)
  \/ handleRefreshFiles
  \/ handleUploadSuccess
  \/ \E newPage \in PageRange(MaxCount) : handlePageChange(newPage)
  \/ \E text \in SearchInputs : handleSearchChange(text)
  \/ handleSearch
  \/ \E u \in ProfileSamples : UserResolved(u)
  \/ UserRejected

\* the user filters the list by name and size and pages through the result
FilterNext ==
  \/ \E i \in 1..MaxFetches, count \in Counts : ListResolved(i, count)
  \/ \E i \in 1..MaxFetches : ListRejected(i)
  \/ \E newPage \in PageRange(MaxCount) : handlePageChange(newPage)
  \/ \E text \in SearchInputs : handleSearchChange(text)
  \/ handleSearch
  \/ handleClearSearch
  \/ \E value \in SliderStops : handleSizeMinChange(value)
  \/ \E value \in SliderStops : handleSizeMaxChange(value)

\* the user pages through a long list and changes the page size
PaginationNext ==
  \/ \E i \in 1..MaxFetches, count \in PagedCounts : ListResolved(i, count)
  \/ \E i \in 1..MaxFetches : ListRejected(i)
  \/ handleRefreshFiles
  \/ \E newPage \in PageRange(MaxPagedCount) : handlePageChange(newPage)
  \/ \E newPageSize \in PageSizeOptions : handlePageSizeChange(newPageSize)

\* the profile is refreshed and its storage bar shown
StorageNext ==
  \/ handleRefreshUserData
  \/ \E u \in StorageInputs : UserResolved(u)
  \/ UserRejected

\* the views before anyone has used them
ViewIdle == LoginIdle /\ UploadIdle /\ FormatIdle /\ DetailsIdle /\ DashIdle

\* ----------------------------------------------------------- specifications
Init == ClientInit /\ ServerInit /\ AuthInit /\ AppIdle /\ ViewIdle
Spec == Init /\ [][Next]_vars

\* the client before anyone has used it
ClientIdle ==
  /\ localStorage = [access_token |-> NoTok, refresh_token |-> NoTok, user |-> FALSE]
  /\ tokenSeq = 0
  /\ pathname = "/login"
  /\ isRefreshing = FALSE
  /\ failedQueue = <<>>
  /\ defaultAuth = NoTok
  /\ reqs = [r \in ReqIds |-> NewRequest]
  /\ user = localStorage.user
  /\ isLoggingOut = FALSE

ServerSpecInit == ServerInit /\ ClientIdle /\ AuthInit /\ AppIdle /\ ViewIdle

AuthSpecInit == AuthInit /\ ClientIdle /\ ServerInit /\ AppIdle /\ ViewIdle

\* the api.js state at a page load
ApiIdle ==
  /\ localStorage = [access_token |-> NoTok, refresh_token |-> NoTok, user |-> FALSE]
  /\ tokenSeq = 0
  /\ isRefreshing = FALSE
  /\ failedQueue = <<>>
  /\ defaultAuth = NoTok
  /\ reqs = [r \in ReqIds |-> NewRequest]
  /\ isLoggingOut = FALSE

AppSpecInit == AppInit /\ ApiIdle /\ ServerInit /\ AuthInit /\ ViewIdle
AppSpec == AppSpecInit /\ [][AppNext]_vars
LoginSpecInit == ViewIdle /\ ClientIdle /\ ServerInit /\ AuthInit /\ AppIdle
LoginSpec == LoginSpecInit /\ [][LoginNext]_vars
\* the upload modal in a dashboard; the session is that of ClientInit
UploadSpecInit == ViewIdle /\ ClientIdle /\ ServerInit /\ AuthInit /\ AppIdle
UploadSpec == UploadSpecInit /\ [][UploadNext]_vars
FormatSpecInit ==
  /\ FormatInit /\ LoginIdle /\ UploadIdle /\ DetailsIdle /\ DashIdle
  /\ ClientIdle /\ ServerInit /\ AuthInit /\ AppIdle
FormatSpec == FormatSpecInit /\ [][FormatNext]_vars
DetailsSpecInit == ViewIdle /\ ClientIdle /\ ServerInit /\ AuthInit /\ AppIdle
DetailsSpec == DetailsSpecInit /\ [][DetailsNext]_vars
\* the mounted dashboard of a logged-in user
DashboardSpecInit ==
  /\ DashInit /\ LoginIdle /\ UploadIdle /\ FormatIdle /\ DetailsIdle
  /\ ClientIdle /\ ServerInit /\ AuthInit /\ AppIdle
DashboardSpec == DashboardSpecInit /\ [][DashNext]_vars
FilterSpec == DashboardSpecInit /\ [][FilterNext]_vars
PaginationSpec == DashboardSpecInit /\ [][PaginationNext]_vars
StorageSpec == DashboardSpecInit /\ [][StorageNext]_vars
AuthSpec == AuthSpecInit /\ [][AuthNext]_vars
ServerSpec == ServerSpecInit /\ [][ServerNext]_vars

TypeOK ==
  /\ localStorage \in [access_token : Toks, refresh_token : Toks, user : BOOLEAN]
  /\ isRefreshing \in BOOLEAN
  /\ defaultAuth \in Toks
  /\ pathname \in {"/login", "/dashboard"}
  /\ tokenSeq \in Toks
  /\ SeqToSet(failedQueue) \subseteq ReqIds
  /\ user \in BOOLEAN
  /\ isLoggingOut \in BOOLEAN

\* ---------------------------------------------------------------- claims
\* refresh-endpoint calls in flight: the 401 handler's axios.post and the
\* manual authAPI.refreshToken requests
HandlerRefreshes == {r \in ReqIds : reqs[r].st = "refreshing"}
ManualRefreshes == {r \in ReqIds : reqs[r].kind = "manual" /\ reqs[r].st = "inflight"}
RefreshCallsInFlight == Cardinality(HandlerRefreshes) + Cardinality(ManualRefreshes)

NoSession == [access_token |-> NoTok, refresh_token |-> NoTok, user |-> FALSE]
RefreshErrors == {"refresh_http", "refresh_network"}

\* C1: at any moment at most one call to the token-refresh endpoint is in
\* flight, counting the 401 handler's call and the manual refresh action
C1_OneRefreshInFlight == RefreshCallsInFlight <= 1

\* C2: of the requests that receive a 401 concurrently only one issues the
\* handler's refresh call (a 401 arriving while it is in flight is queued and
\* starts none); when that call succeeds the new access and refresh tokens are
\* persisted, the queue is emptied, and the refreshing request and every
\* queued request are replayed carrying the newly issued access token
C2_OneRefreshThenReplayAll ==
  [][ /\ Cardinality(HandlerRefreshes') <= 1
      /\ (HandlerRefreshes # {} => HandlerRefreshes' \subseteq HandlerRefreshes)
      /\ \A q \in ReqIds :
           (HandlerRefreshes # {} /\ reqs[q].st = "inflight" /\ reqs'[q].st # "inflight"
              /\ reqs'[q].st # "resolved" /\ reqs'[q].st # "rejected")
           => (reqs'[q].st = "queued" /\ q \in SeqToSet(failedQueue')
                 /\ HandlerRefreshes' = HandlerRefreshes)
      /\ \A r \in ReqIds :
           (reqs[r].st = "refreshing" /\ reqs'[r].st = "inflight")
           => /\ tokenSeq' = tokenSeq + 1
              /\ localStorage'.access_token = tokenSeq'
              /\ localStorage'.refresh_token = tokenSeq'
              /\ failedQueue' = <<>>
              /\ \A q \in {r} \cup SeqToSet(failedQueue) :
                   /\ reqs'[q].st = "inflight"
                   /\ reqs'[q].auth = tokenSeq'
                   /\ reqs'[q].replays = reqs[q].replays + 1
    ]_vars

\* two requests answered 401 concurrently are both replayed with the new token
C2_Witness ==
  \E r, q \in ReqIds :
     /\ r # q
     /\ reqs[r].st = "inflight" /\ reqs[r].retry /\ reqs[r].replays = 1
     /\ reqs[q].st = "inflight" /\ reqs[q].nq = 1 /\ reqs[q].replays = 1
     /\ reqs[r].auth = tokenSeq /\ reqs[q].auth = tokenSeq
     /\ localStorage.access_token = tokenSeq /\ tokenSeq = 2
     /\ ~isRefreshing /\ failedQueue = <<>>

\* C3: when the 401 handler's refresh call fails, every queued request is
\* rejected with the refresh error, the queue is emptied, access_token,
\* refresh_token and user are removed from storage, and the browser is on
\* /login (forced there unless it already was)
C3_RefreshFailureEndsSession ==
  [][ \A r \in ReqIds :
        (reqs[r].st = "refreshing" /\ reqs'[r].st = "rejected")
        => /\ reqs'[r].err \in RefreshErrors
           /\ \A q \in SeqToSet(failedQueue) :
                reqs'[q].st = "rejected" /\ reqs'[q].err = reqs'[r].err
           /\ failedQueue' = <<>>
           /\ localStorage' = NoSession
           /\ pathname' = "/login"
    ]_vars

\* a queued request was rejected with the refresh error of the refreshing one
C3_Witness ==
  \E r, q \in ReqIds :
     /\ r # q
     /\ reqs[r].st = "rejected" /\ reqs[r].nq = 0 /\ reqs[r].err \in RefreshErrors
     /\ reqs[q].st = "rejected" /\ reqs[q].nq = 1 /\ reqs[q].err = reqs[r].err
     /\ localStorage = NoSession /\ pathname = "/login"
     /\ failedQueue = <<>> /\ ~isRefreshing

\* C4: a request is replayed at most once, and a replayed request that is
\* answered 401 again neither starts nor waits for another refresh
C4_OneRefreshOneReplay ==
  \A r \in ReqIds :
     /\ reqs[r].replays <= 1
     /\ reqs[r].replays >= 1 => reqs[r].st \notin {"refreshing", "queued"}
\* ---- file store
SizeOfFile(i) == (CHOOSE y \in storedFiles : y.id = i).size
TripleOf(u) == {x \in assocs : /\ x.account = ups[u].account
                               /\ x.file = ups[u].file
                               /\ x.filename = ups[u].filename}
Commits(u) == ups[u].pc = "assoc" /\ ups'[u].pc = "done"
FileExists(i) == \E y \in storedFiles : y.id = i
UniqueTriple ==
  \A x, y \in assocs :
     (x.account = y.account /\ x.file = y.file /\ x.filename = y.filename) => x.id = y.id
UniqueHash == \A x, y \in storedFiles : x.hash = y.hash => x = y

\* C5: in every reachable state each account's storage_used equals the sum
\* of the content sizes of that account's non-deleted associations
C5_StorageUsedIsActiveSum ==
  \A a \in Accounts : storage_used[a] = SumSizes({x \in assocs : x.account = a /\ ~x.deleted})

\* an upload, a soft delete and an undeleting re-upload have happened
C5_Witness ==
  /\ last.result = "undeleted"
  /\ \E a \in Accounts : storage_used[a] = SizeOf(1) /\ \E x \in assocs : x.account = a /\ ~x.deleted

\* C6: there is never more than one StoredFile row per content hash; the
\* loser of an insert race goes back to its lookup and resolves to the
\* existing row; associations of the same content share that row, and a
\* created association adds the content size to its own account only
C6_OneStoredFilePerHash ==
  /\ [](UniqueHash /\ \A x \in assocs : FileExists(x.file))
  /\ [][ \A u \in UploadIds :
           /\ (ups[u].pc = "insert" /\ ups'[u].pc # "insert"
                 /\ \E y \in storedFiles : y.hash = ups[u].content)
              => (ups'[u].pc = "lookup" /\ storedFiles' = storedFiles)
           /\ (ups[u].pc = "lookup" /\ ups'[u].pc = "assoc")
              => \E y \in storedFiles : y.hash = ups[u].content /\ y.id = ups'[u].file
           /\ (Commits(u) /\ last'.result = "created")
              => /\ storage_used' = [storage_used EXCEPT ![ups[u].account] =
                                       @ + SizeOfFile(ups[u].file)]
                 /\ \E x \in assocs' \ assocs :
                      /\ assocs' = assocs \cup {x}
                      /\ x.account = ups[u].account /\ x.file = ups[u].file /\ ~x.deleted
       ]_vars

\* two accounts uploaded the same bytes concurrently; one lost the insert race
C6_Witness ==
  /\ Cardinality(storedFiles) = 1
  /\ \E x, y \in assocs : x.account # y.account /\ x.file = y.file /\ ~x.deleted /\ ~y.deleted
  /\ \A a \in Accounts : storage_used[a] = SizeOf(1)
  /\ last.result = "created" /\ last.lostRace

\* C7: an upload of an (account, content, filename) triple whose association
\* is active changes no row and no usage; the triple never has a second row
C7_ReuploadIdempotent ==
  /\ []UniqueTriple
  /\ [][ \A u \in UploadIds :
           (Commits(u) /\ \E x \in TripleOf(u) : ~x.deleted)
           => /\ last'.result = "existing"
              /\ assocs' = assocs
              /\ storage_used' = storage_used
              /\ storedFiles' = storedFiles
       ]_vars

\* the same triple was uploaded twice: one association, one StoredFile, size counted once
C7_Witness ==
  /\ last.result = "existing"
  /\ Cardinality(assocs) = 1 /\ Cardinality(storedFiles) = 1
  /\ \E x \in assocs : ~x.deleted /\ storage_used[x.account] = SizeOf(1)

\* a soft delete subtracts the size and hides the association from the listing
DeleteSubtractsAndHides ==
  \A x \in assocs :
     (~x.deleted /\ [x EXCEPT !.deleted = TRUE] \in assocs')
     => /\ storage_used'[x.account] = storage_used[x.account] - SizeOfFile(x.file)
        /\ x.id \in List(x.account) /\ x.id \notin List(x.account)'

\* upload u restores the soft-deleted row of its triple: same id, deleted
\* cleared, size re-added, no other row touched
Restores(u) ==
  /\ last'.result = "undeleted"
  /\ \E x \in TripleOf(u) : assocs' = (assocs \ {x}) \cup {[x EXCEPT !.deleted = FALSE]}
  /\ storage_used' = [storage_used EXCEPT ![ups[u].account] = @ + SizeOfFile(ups[u].file)]

\* an upload under a triple that has no row leaves every existing row as it was
OtherNameIsIndependent ==
  \A u \in UploadIds :
     (Commits(u) /\ TripleOf(u) = {})
     => /\ assocs \subseteq assocs'
        /\ \A x \in assocs' \ assocs : \A y \in assocs : x.id # y.id

C10_CleanupRemovesOnlyOrphans ==
  [][ \A x \in storedFiles :
        LET orphan == \A y \in assocs : y.file = x.id => y.deleted
            examined == /\ cleanup.pc = "running" /\ ~cleanup.dry
                        /\ x.id \in cleanup.todo /\ x.id \notin cleanup'.todo
        IN  /\ x \notin storedFiles' <=> (examined /\ orphan)
            /\ x \notin storedFiles' => x.hash \notin blobs'
            /\ x \in storedFiles' => x.hash \in blobs'
    ]_vars

\* an upload undeleted the last association while the job was running and
\* the job then examined the StoredFile and kept it
C10_Witness ==
  /\ last.result = "undeleted" /\ last.inRun
  /\ cleanup.pc = "running" /\ ~cleanup.dry /\ last.file \notin cleanup.todo
  /\ \E x \in storedFiles : x.id = last.file /\ x.hash \in blobs
  /\ \E y \in assocs : y.file = last.file /\ ~y.deleted
\* ------------------------------------------------------- refresh tokens
\* a refresh token that was exchanged in a successful refresh or presented to
\* a successful logout
Used(t) == accepted[t] >= 1 \/ t \in loggedOut

RefreshAttempt(t) == \E byClient \in BOOLEAN : RefreshAccept(t, byClient) \/ RefreshReject(t, byClient)

\* C11: a refresh token is accepted by the refresh endpoint at most once; once
\* it was exchanged in a successful refresh or presented to a successful
\* logout, every refresh attempt with it fails with an Authentication error,
\* whatever the client holds in its storage
C11_RefreshTokenSingleUse ==
  [][\A t \in RefreshTokens :
       (Used(t) /\ RefreshAttempt(t))
         => /\ accepted'[t] = accepted[t]
            /\ lastRefresh' = [token |-> t, result |-> "authentication_error"]]_vars

\* a token presented to a successful logout was refused by the refresh
\* endpoint after the client had cleared its storage, and another token was
\* exchanged once
C11_Witness ==
  /\ lastRefresh.result = "authentication_error"
  /\ lastRefresh.token \in loggedOut
  /\ held = NoTok
  /\ \E t \in RefreshTokens : accepted[t] = 1

\* -------------------------------------------------------- isAuthenticated
\* the condition the claim gives for isAuthenticated() to return true
ShouldAuthenticate(a, u, now) ==
  /\ a.kind = "string"
  /\ u = "object"
  /\ a.parts = 3
  /\ a.middle = "object"
  /\ a.exp # NoExp => a.exp > now

\* C13: isAuthenticated() returns true exactly when an access token and a
\* cached user are both in storage, the token has exactly three dot-separated
\* segments, its middle segment decodes to a JSON payload and the payload's
\* exp, if present, is in the future; every failure yields false
C13_IsAuthenticatedExactly ==
  [][checkAuthStatus =>
       ((authResult' = "true") <=> ShouldAuthenticate(accessItem, userItem, CurrentTime))]_vars

\* ------------------------------------------------------------ route table
RoutesFollowSession ==
  authChecked =>
    /\ view = "Dashboard" => user
    /\ view \in {"Login", "Register"} => ~user
    /\ pathname \in {"/", "/other"} =>
         view = (IF user THEN "Navigate:/dashboard" ELSE "Navigate:/login")

\* C14: after the initial session check the dashboard is rendered only while
\* the session user is set, the login and registration views only while it is
\* not set, and / and any unmatched path redirect to /dashboard when the user
\* is set and to /login otherwise
C14_RoutesFollowSession ==
  /\ []RoutesFollowSession
  /\ [][(Redirect /\ pathname \in {"/", "/other"})
          => pathname' = (IF user THEN "/dashboard" ELSE "/login")]_vars

\* a session that was adopted from storage has ended without a document load
\* and the login view is rendered
C14_Witness ==
  /\ authChecked
  /\ authResult = "true"
  /\ ~user
  /\ view = "Login"

\* ------------------------------------------------------ expiration timer
Missing(a) == a.kind # "string"
Undecodable(a) == a.kind = "string" /\ (a.parts # 3 \/ a.middle # "object")
\* the expiration time of the token has passed
Expired(a, now) == a.kind = "string" /\ a.exp # NoExp /\ a.exp < now

SessionEnded == ~user' /\ accessItem' = NoItem /\ userItem' = "absent"

Settled == {"resolved", "rejected"}

\* the step in which the dashboard's logout action finishes: the awaited
\* logout call settles, or no call was needed
LogoutFinishes ==
  \/ \E r \in ReqIds : /\ reqs[r].kind = "logout"
                        /\ reqs[r].st \notin Settled
                        /\ reqs'[r].st \in Settled
  \/ LogoutLocal

\* a step that removes one of the three keys from browser storage
RemovesAKey ==
  \/ localStorage.access_token # NoTok /\ localStorage'.access_token = NoTok
  \/ localStorage.refresh_token # NoTok /\ localStorage'.refresh_token = NoTok
  \/ localStorage.user /\ ~localStorage'.user

\* C12: when the dashboard's logout action finishes, whatever the server
\* answered to the logout call, access_token, refresh_token and user are absent
\* from storage and the session user is unset; a step that removes one of the
\* three keys removes all three
C12_LogoutAlwaysSucceedsLocally ==
  [][/\ LogoutFinishes => (localStorage' = NoSession /\ ~user' /\ ~isLoggingOut')
     /\ RemovesAKey => localStorage' = NoSession]_vars

\* a logout call that got a 401, was replayed after a refresh had stored a new
\* token pair, and then failed: the logout has finished
C12_Witness ==
  \E r \in ReqIds : /\ reqs[r].kind = "logout"
                    /\ reqs[r].st = "rejected"
                    /\ reqs[r].replays > 0
                    /\ localStorage = NoSession
                    /\ ~user

\* ------------------------------------------------------ network errors
\* the failures due to no response having been received, and the normalized value
NoResponseErrors == {"network_error", "refresh_network"}
NormalizedError == "network_error"

\* C16: every failure handed to a caller because no response was received is
\* the normalized network error, also when it was the refresh made on the
\* request's behalf that got no response
C16_NoResponseIsNormalized ==
  \A r \in ReqIds :
    (reqs[r].st = "rejected" /\ reqs[r].err \in NoResponseErrors)
      => reqs[r].err = NormalizedError

\* ------------------------------------------------------------ login errors
\* a step in which handleSubmit caught the rejection of authAPI.login
LoginFails == pending /\ ~pending' /\ caught' # NoError

\* the messages the form renders: errors.general, errors.username, errors.password
Shown(errs) == {k \in Slots : errs[k] # NoMsg}

Recognised == {"non_field_errors", "username", "password"}

\* the errors state the form must have after it caught e
MappedAsSpecified(errs, e) ==
  /\ Shown(errs) # {}
  /\ \A k \in ErrKeys \ Slots : errs[k] = NoMsg
  /\ (e.response /\ e.kind = "object") =>
       /\ \A f \in {"username", "password"} :
            IF e.obj[f] # Absent THEN errs[f] = e.obj[f].items[1] ELSE errs[f] = NoMsg
       /\ e.obj.non_field_errors # Absent =>
            errs.general = e.obj.non_field_errors.items[1]
       /\ (\A k \in Recognised : e.obj[k] = Absent) =>
            errs = [NoErrors EXCEPT !.general = "Invalid username or password"]
  /\ (e.response /\ e.kind = "text") =>
       errs = [NoErrors EXCEPT !.general = "Invalid username or password"]
  /\ ~e.response =>
       errs = [NoErrors EXCEPT !.general = "Network error. Please try again."]

C18_OversizedFileNeverSent ==
  /\ [][(handleUpload /\ selectedFile > 104857600) =>
          /\ uploadError' # NoUploadError
          /\ uploadRequest' = NoSelection
          /\ uploadCalls' = uploadCalls
          /\ ~isUploading']_vars
  /\ [][(uploadCalls' # uploadCalls \/ (uploadRequest' # uploadRequest
                                        /\ uploadRequest' # NoSelection)) =>
          /\ selectedFile # NoSelection
          /\ selectedFile <= 104857600
          /\ uploadRequest' = selectedFile
          /\ uploadCalls' = uploadCalls \cup {selectedFile}]_vars
  /\ [](\A size \in uploadCalls : size >= 0 /\ size <= 104857600)

\* a file of exactly 104,857,600 bytes has been sent, and the file now
\* selected, one byte larger, has been refused with the size message
C18_Witness ==
  /\ 104857600 \in uploadCalls
  /\ selectedFile = 104857601
  /\ uploadError = <<"File size must be less than 100MB">>
  /\ uploadRequest = NoSelection
  /\ ~isUploading

\* --------------------------------------------------------- byte formatting
\* the number shown is the size in its unit to within one tenth step, written
\* with at most one decimal
InUnit(text, b) ==
  \E i \in 0..3 :
    /\ Pow(1024, i) <= b
    /\ i < 3 => b < Pow(1024, i + 1)
    /\ \E n \in (b \div Pow(1024, i)) * 10 .. (b \div Pow(1024, i)) * 10 + 10 :
         text = (IF n % 10 = 0 THEN ToString(n \div 10)
                 ELSE ToString(n \div 10) \o "." \o ToString(n % 10))
                \o " " \o sizes[i + 1]

\* C19 as stated: sizes are rendered in 1024-based units with one decimal
\* place; 1,536 bytes is "1.5 KB", 0 bytes is "0 Bytes", 1,073,741,824 bytes
\* is "1.0 GB"
C19_FormatBytesAsStated ==
  rendered # NotRendered =>
    /\ bytes = 1536 => rendered = "1.5 KB"
    /\ bytes = 0 => rendered = "0 Bytes"
    /\ bytes = 1073741824 => rendered = "1.0 GB"

\* C19, amended: sizes are rendered in 1024-based units rounded to one decimal
\* place, a whole number without decimals; 1,536 bytes is "1.5 KB", 0 bytes
\* is "0 Bytes", 1,073,741,824 bytes is "1 GB"
C19_FormatBytes ==
  rendered # NotRendered =>
    /\ bytes = 1536 => rendered = "1.5 KB"
    /\ bytes = 0 => rendered = "0 Bytes"
    /\ bytes = 1073741824 => rendered = "1 GB"
    /\ bytes > 0 => InUnit(rendered, bytes)

\* one GiB has been rendered
C19_Witness == bytes = 1073741824 /\ rendered = "1 GB"

\* ------------------------------------------------------ delete confirmation
\* a step that calls the delete endpoint
DeleteCalled == deletes' # deletes \/ (deleteRequest = NoDetails /\ deleteRequest' # NoDetails)

\* a step in which a delete attempt ends, with success or failure
DeleteAttemptEnds == deleteRequest # NoDetails /\ deleteRequest' = NoDetails

\* C20: the delete endpoint is called only from the confirmation panel, that
\* is with the confirmation flag set, which only the user's request to delete
\* sets; after every delete attempt, after Cancel and after closing the modal
\* the flag is cleared, so there are never more delete calls than requests to
\* delete
C20_DeleteNeedsFreshConfirmation ==
  /\ [][DeleteCalled => (detailsOpen /\ fileDetails # NoDetails /\ showDeleteConfirm
                         /\ deletes' = deletes + 1 /\ deleteRequest' = fileId)]_vars
  /\ [][(~showDeleteConfirm /\ showDeleteConfirm') => confirms' = confirms + 1]_vars
  /\ [][DeleteAttemptEnds => ~showDeleteConfirm']_vars
  /\ [][cancelDelete => ~showDeleteConfirm']_vars
  /\ [][(detailsOpen /\ ~detailsOpen') => ~showDeleteConfirm']_vars
  /\ [](~detailsOpen => ~showDeleteConfirm)
  /\ [](deletes <= confirms)
  /\ [](showDeleteConfirm /\ deleteRequest = NoDetails => deletes < confirms)

\* a delete failed, the user asked again and confirmed again, and the second
\* call is in flight
C20_Witness ==
  /\ deletes = 2
  /\ confirms = 2
  /\ deleteRequest # NoDetails
  /\ showDeleteConfirm
  /\ isDeleting

\* ------------------------------------------------------- closing the modal
\* a step that closes the file-details modal
DetailsCloses == detailsOpen /\ ~detailsOpen'

\* C21: closing the file-details modal, also while a detail fetch or a delete
\* call is outstanding, clears the loaded detail, the error and the
\* confirmation flag
C21_CloseResetsLocalState ==
  [][DetailsCloses => (/\ fileDetails' = NoDetails
                       /\ detailsError' = NoErrorText
                       /\ ~showDeleteConfirm')]_vars

\* the modal was closed while its delete call and a fetch were outstanding,
\* and its state is cleared
C21_Witness ==
  /\ ~detailsOpen
  /\ deleteRequest # NoDetails
  /\ fetches # {}
  /\ fileDetails = NoDetails
  /\ detailsError = NoErrorText
  /\ ~showDeleteConfirm

\* ---------------------------------------------------------- late responses
\* C22: a response that arrives after the modal was closed or opened for
\* another file is not applied: the modal holds no record while closed and
\* only the record of the file it is open for, and the delete call targets
\* the file whose record the confirmation panel shows
C22_LateResponsesIgnored ==
  /\ [](fileDetails # NoDetails => (detailsOpen /\ fileDetails = fileId))
  /\ [][DeleteCalled => deleteRequest' = fileDetails]_vars

\* ------------------------------------------------------ refresh-in-flight flag
\* C29: isRefreshing is cleared whenever a refresh attempt ends (succeeded,
\* failed, or abandoned for want of a refresh token), so it is set only while
\* the handler's refresh call is in flight, and a request is parked in the
\* queue only while that call is in flight, which will settle it
C29_RefreshFlagCleared ==
  /\ [](isRefreshing => \E r \in ReqIds : reqs[r].st = "refreshing")
  /\ [](failedQueue # <<>> => \E r \in ReqIds : reqs[r].st = "refreshing")

\* ------------------------------------------------------ bearer after the session
\* a step that sends request r
Sends(r) == reqs[r].st = "unsent" /\ reqs'[r].st = "inflight"

\* C30: a request carries a bearer token only when an access token is in
\* storage, and the default Authorization header is not set while no session
\* exists, so that after the session has ended no request carries a bearer
\* token until the next login
C30_NoBearerAfterSession ==
  /\ [][\A r \in ReqIds : (Sends(r) /\ reqs'[r].auth # NoTok)
                            => localStorage.access_token # NoTok]_vars
  /\ []((~user /\ localStorage.access_token = NoTok) => defaultAuth = NoTok)


\* ------------------------------------------------------ failed upload
\* the awaited fileAPI.uploadFile call rejects
UploadFails == \E e \in UploadFailures : UploadRejected(e)

\* C28: a failed upload leaves the modal open with the selected file and the
\* tag text unchanged, a non-empty error, isUploading cleared and the parent
\* not notified; the parent is notified only when an upload succeeds, once,
\* with the created record, and the modal is then reset and closed; while an
\* upload is in flight the modal closes in no other way
C28_FailedUploadKeepsForm ==
  /\ [][UploadFails => (/\ isOpen'
                        /\ selectedFile' = selectedFile
                        /\ tags' = tags
                        /\ uploadError' # NoUploadError
                        /\ ~isUploading'
                        /\ notifications' = notifications)]_vars
  /\ [][notifications' # notifications =>
          (/\ uploadRequest # NoSelection
           /\ uploadRequest' = NoSelection
           /\ notifications' = Append(notifications, uploadRequest)
           /\ ~isOpen'
           /\ selectedFile' = NoSelection
           /\ tags' = ""
           /\ uploadError' = NoUploadError
           /\ ~isUploading')]_vars
  /\ [][(isUploading /\ isOpen /\ ~isOpen') => notifications' # notifications]_vars

\* after one upload succeeded, a second one has failed with the form filled in
C28_Witness ==
  /\ Len(notifications) = 1
  /\ isOpen /\ ~isUploading
  /\ uploadRequest = NoSelection
  /\ uploadError = <<"Upload failed">>
  /\ selectedFile # NoSelection
  /\ tags # ""

\* --------------------------------------------------- list after an upload
\* no fileAPI.getFiles and no authAPI.getCurrentUser call is in flight, and
\* the last one has not failed
DashboardQuiet == listRequests = <<>> /\ userRequests = 0 /\ ~filesError

\* C23: after an upload succeeded, once every request its handling started
\* has completed, in whatever order, the current page is 1 and the list shown
\* is the page-1 result for the active filters
C23_UploadShowsPageOne ==
  (uploadSettling /\ DashboardQuiet)
    => (/\ currentPage = 1
        /\ files.loaded
        /\ files.params = FetchParams(1, pageSize, activeSearchTerm, activeSizeMin,
                                      activeSizeMax))

\* ------------------------------------------------------ filters and page
\* the active filters change in a step
FiltersChange ==
  <<activeSearchTerm, activeSizeMin, activeSizeMax>>'
    # <<activeSearchTerm, activeSizeMin, activeSizeMax>>

\* the fileAPI.getFiles calls a step makes
NewRequests == SubSeq(listRequests', Len(listRequests) + 1, Len(listRequests'))

\* the filter is submitted or cleared
Submits == handleSearch \/ handleClearSearch

\* the user types in the search box or moves a slider
Drafts ==
  \/ \E text \in SearchInputs : handleSearchChange(text)
  \/ \E value \in SliderStops : handleSizeMinChange(value) \/ handleSizeMaxChange(value)

\* C24: submitting or clearing the filter leaves the current page at 1 and
\* every list request it triggers carries page 1 and the new filters, and it
\* triggers one whenever the active filters change; typing in the search box
\* or moving a slider changes neither the active filters nor the page and
\* triggers no request
C24_FilterChangeResetsPage ==
  /\ [][Submits =>
          (/\ currentPage' = 1
           /\ \A i \in DOMAIN NewRequests :
                NewRequests[i].params
                  = FetchParams(1, pageSize, activeSearchTerm', activeSizeMin', activeSizeMax')
           /\ FiltersChange => NewRequests # <<>>)]_vars
  /\ [][FiltersChange => Submits]_vars
  /\ [][Drafts =>
          (/\ ~FiltersChange
           /\ currentPage' = currentPage
           /\ listRequests' = listRequests)]_vars

\* a filter was submitted from page 2: the page is 1 again, the request for
\* page 1 of the filtered list is in flight, page 2 is still shown
C24_Witness ==
  /\ currentPage = 1
  /\ files.loaded /\ files.params.page = 2
  /\ activeSearchTerm = <<"a">>
  /\ activeSizeMin = sliderStep
  /\ listRequests = <<[params |-> FetchParams(1, pageSize, <<"a">>, sliderStep, activeSizeMax),
                       showLoading |-> TRUE]>>

\* ------------------------------------------------------------ size bounds
\* lo and hi are ordered bounds within the range of the sliders
OrderedBounds(lo, hi) == 0 <= lo /\ lo <= hi /\ hi <= 1073741824

\* C25: after any sequence of slider moves, filter submits and clears,
\* 0 <= sizeMin <= sizeMax <= 1073741824 holds, and likewise for the active
\* bounds and for the bounds every list request carries; moving the min above
\* the current max raises the max to the same value, and moving the max below
\* the current min lowers the min to the same value
C25_SizeBoundsOrdered ==
  /\ [](/\ OrderedBounds(sizeMin, sizeMax)
        /\ OrderedBounds(activeSizeMin, activeSizeMax)
        /\ \A i \in DOMAIN listRequests :
             LET sent == listRequests[i].params
             IN  /\ sent.size_min # NoParam => OrderedBounds(sent.size_min, sent.size_min)
                 /\ sent.size_max # NoParam => OrderedBounds(sent.size_max, sent.size_max)
                 /\ (sent.size_min # NoParam /\ sent.size_max # NoParam)
                      => OrderedBounds(sent.size_min, sent.size_max))
  /\ [][\A value \in SliderStops :
          /\ (handleSizeMinChange(value) /\ value > sizeMax)
               => (sizeMin' = value /\ sizeMax' = value)
          /\ (handleSizeMaxChange(value) /\ value < sizeMin)
               => (sizeMin' = value /\ sizeMax' = value)]_vars

\* the max had been lowered to 0 and submitted; the min was then moved above
\* it, which raised the max, and the pair was submitted
C25_Witness ==
  /\ files.loaded /\ files.params.size_max = 0
  /\ sizeMin = sliderStep /\ sizeMax = sliderStep
  /\ activeSizeMin = sliderStep /\ activeSizeMax = sliderStep
  /\ \E i \in DOMAIN listRequests :
       listRequests[i].params.size_min = sliderStep /\ listRequests[i].params.size_max = sliderStep

\* ------------------------------------------------------------- pagination
\* the smallest element of a non-empty set of numbers
Least(S) == CHOOSE x \in S : \A y \in S : x <= y

\* a pagination control asks for a page
PageChanges == \E newPage \in PageRange(MaxPagedCount) : handlePageChange(newPage)

\* C26: when totalPages > 1 and 1 <= currentPage <= totalPages, the numbered
\* page buttons are min(5, totalPages) distinct consecutive page numbers
\* within 1..totalPages, one of them the current page; a page change is
\* accepted only to a page in 1..totalPages, so the pagination controls never
\* take the current page out of that range
C26_PageWindow ==
  /\ []((totalPages > 1 /\ currentPage >= 1 /\ currentPage <= totalPages) =>
          LET shown == PageButtons(currentPage, totalPages)
              n == IF totalPages < 5 THEN totalPages ELSE 5
          IN  /\ Cardinality(shown) = n
              /\ shown = Least(shown)..(Least(shown) + n - 1)
              /\ shown \subseteq 1..totalPages
              /\ currentPage \in shown)
  /\ [][PageChanges =>
          (/\ currentPage' # currentPage => (currentPage' >= 1 /\ currentPage' <= totalPages)
           /\ (currentPage >= 1 /\ currentPage <= totalPages)
                => (currentPage' >= 1 /\ currentPage' <= totalPages))]_vars

\* page 5 of 9 is shown and current: the window is 3..7
C26_Witness ==
  /\ totalPages = 9
  /\ currentPage = 5
  /\ files.loaded /\ files.params.page = 5
  /\ listRequests = <<>>
  /\ PageButtons(currentPage, totalPages) = 3..7


\* ------------------------------------------------------------ storage bar
\* used / quota, as a percentage, is below n, and at least n
RatioBelow(u, n) == u.storage_used * 100 < n * u.storage_quota
RatioAtLeast(u, n) == ~RatioBelow(u, n)

HasQuota(u) == u.storage_quota # NoQuota /\ u.storage_quota # 0

\* C27, as stated: the bar is green below 75%, amber from 75% to 90%, red
\* above 90%; the percentage is 0 when the quota is 0 or missing; the width
\* never exceeds 100%
C27_StorageBarColour ==
  /\ HasQuota(currentUser) =>
       /\ RatioBelow(currentUser, 75) => BarColour(currentUser) = "#10b981"
       /\ (RatioAtLeast(currentUser, 75) /\ ~RatioAtLeast(currentUser, 90) )
            => BarColour(currentUser) = "#f59e0b"
       /\ (currentUser.storage_used * 100 = 90 * currentUser.storage_quota)
            => BarColour(currentUser) = "#f59e0b"
       /\ (RatioAtLeast(currentUser, 90)
           /\ currentUser.storage_used * 100 # 90 * currentUser.storage_quota)
            => BarColour(currentUser) = "#ef4444"
  /\ ~HasQuota(currentUser) => getStoragePercentage(currentUser) = 0
  /\ BarWidth(currentUser) <= 100

\* C27, amended: the colour follows the percentage rounded to a whole number
\* (a half rounds up): green up to 75, that is used/quota below 75.5%; amber
\* from 76 to 90, that is from 75.5% to below 90.5%; red from 91, that is
\* from 90.5%; the percentage is 0 when the quota is 0 or missing, and the
\* bar is then green; the width is the percentage, at most 100
C27_StorageBarColourRounded ==
  /\ HasQuota(currentUser) =>
       /\ BarColour(currentUser) = "#10b981"
            <=> 2 * currentUser.storage_used * 100 < 151 * currentUser.storage_quota
       /\ BarColour(currentUser) = "#ef4444"
            <=> 2 * currentUser.storage_used * 100 >= 181 * currentUser.storage_quota
       /\ BarColour(currentUser) \in {"#10b981", "#f59e0b", "#ef4444"}
  /\ ~HasQuota(currentUser) =>
       /\ getStoragePercentage(currentUser) = 0
       /\ BarColour(currentUser) = "#10b981"
  /\ BarWidth(currentUser) <= 100
  /\ BarWidth(currentUser) = getStoragePercentage(currentUser)
       \/ (BarWidth(currentUser) = 100 /\ getStoragePercentage(currentUser) > 100)

\* a profile at 75.6% of its quota: the rounded percentage is 76, the bar amber
C27_Witness ==
  /\ currentUser.storage_quota = 256
  /\ currentUser.storage_used = 194
  /\ getStoragePercentage(currentUser) = 76
  /\ BarColour(currentUser) = "#f59e0b"
  /\ userRequests = 0
====
